---- MODULE Spec2Model ----
(***************************************************************************)
(* Model of the smaract protocol client: the controller's send_cmd         *)
(* chokepoint (controller.py), the transport framing (communication.py),   *)
(* the range validators and status tables (constants.py), the axis         *)
(* commands (axis.py) and the state mapping of the Sardana adapter         *)
(* (SmaractMCSCtrl.py).                                                    *)
(*                                                                         *)
(* Texts (commands, frames, answers) are sequences of one-character        *)
(* strings, so that Python's indexing, slicing, split and int() are        *)
(* computed and not assumed.  A Python call is one action; the exception   *)
(* it ends with, the frames it wrote to the transport and the value it     *)
(* returned are recorded in the variables call, sent and result until the  *)
(* caller takes them (Return).                                             *)
(*                                                                         *)
(* Five specifications share the variables.  Spec: the operations of a     *)
(* built controller, one action per call.  SpecBuild: the construction of  *)
(* a SmaractMCSController and _create_axes, one action per command sent.   *)
(* SpecIO: the transports, one action per flush, write and read, for two   *)
(* threads that call send_cmd on the same controller.  SpecSettings and    *)
(* SpecMotion: calls answered by a device that keeps its registers, for    *)
(* the settings read back and for the motion and adapter commands.         *)
(***************************************************************************)
EXTENDS Integers, Sequences, FiniteSets, TLC

VARIABLES
    comm_type,    \* SmaractCommunication._comm_type
    axes,         \* the controller (a Python list) of axis objects
    ERROR_CODES,  \* SmaractBaseController.ERROR_CODES (a class-level dict)
    call,         \* the operation called and its arguments, or NoCall
    sent,         \* frames written to the transport during the call
    result,       \* how the call ended: exception kind, error code, message, value
    build,        \* SmaractMCSController.__init__ / _create_axes: where it stands
    first_frame,  \* the first frame the controller wrote to the transport
    errors,       \* the errors raised so far: where raised, exception type, message
    observed,     \* what a second thread sees of the controller when it looks now
    conn,         \* the transport object: its construction and its connection
    th,           \* the threads calling send_cmd, each with its position in it
    inbuf,        \* the device's answers: what has arrived unread, what is on its way
    wire,         \* the frames written to the device, in order
    device,       \* the device's registers: what its channels hold and do
    _axes         \* SmaractMCSCtrl._axes: the motors added to the adapter

callVars == <<call, sent, result>>

buildVars == <<build, first_frame, errors, observed>>

ioVars == <<conn, th, inbuf, wire>>

devVars == <<device, _axes>>

vars == <<comm_type, axes, ERROR_CODES, call, sent, result, build, first_frame, errors,
          observed, conn, th, inbuf, wire, device, _axes>>

---------------------------------------------------------------------------
(* Bounds of the model *)

MaxChannels == 2   \* channels the device reports
MaxLen == 2        \* length of a list handed to a validator
MaxTurns == 2      \* positions span -MaxTurns..MaxTurns revolutions
MaxBuilds == 2     \* enumerations (_create_axes runs) of one behaviour

---------------------------------------------------------------------------
(* constants.py *)

MAX_FREQUENCY == 18500
MIN_FREQUENCY == 50
MAX_AMPLITUDE == 4095
MAX_STEPS == 30000
MAX_ACCELERATION == 100000000
MAX_VELOCITY == 1000000000
MAX_ANGLE == 359999999
MIN_ANGLE == 0
MAX_REV == 32767
MIN_REV == -32768
MIN_FORCE == -10000000
MAX_FORCE == 10000000
MIN_SPEED == 1
MAX_SPEED == 225000
MIN_OPENING == 0
MAX_OPENING == 22500
MIN_TARGET == 0
MAX_TARGET == 4095
MIN_SCAN_SPEED == 0
MIN_BAUDRATE == 9600
MAX_BAUDRATE == 115200
MIN_DELAY == 100
MAX_DELAY == 60000
TRIGGER_INDEX_0 == 1792
MIN_TRIGGER == 0
MAX_TRIGGER == 255
MIN_HOLD_TIME == 0
MAX_HOLD_TIME == 60000
TURN == 360000000

\* class Status
STOPPED == 0
STEPPING == 1
SCANNING == 2
HOLDING == 3
TARGETING == 4
WAITING == 5
CALIBRATING == 6
HOMING == 7
LOCKED == 9

states_txt ==
    (0 :> "Stopped" @@ 1 :> "Stepping" @@ 2 :> "Scanning" @@ 3 :> "Holding"
     @@ 4 :> "Targeting" @@ 5 :> "Move delay" @@ 6 :> "Calibrating"
     @@ 7 :> "Finding reference mark" @@ 9 :> "Locked")

status_txt ==
    (0 :> "The positioner is currently not performing any active movement."
     @@ 1 :> "The positioner is performing an open-loop movement."
     @@ 2 :> "The positioner is performing a scanning movement."
     @@ 3 :> "The positioner is holding its current target position or is holding the reference mark"
     @@ 4 :> "The positioner is performing a close-loop movement."
     @@ 5 :> "The positioner is currently waiting for the sensor to power up before executing the movement command. This status may be returned if the sensors are operated  in power save mode."
     @@ 6 :> "The positioner is buusy calibrating its sensor."
     @@ 7 :> "The positioner is moving to find the reference mark."
     @@ 9 :> "An emergency stop has occurred and further movements are not allowed.")

\* class TableIndex
TableIndex_SI == 0
TableIndex_MF == 1
TableIndex_ST == 2

\* class CommunicationMode
CommunicationMode_SYNC == 0

\* class CommType (communication.py)
CommType_Serial == 1
CommType_SerialTango == 2
CommType_Socket == 3

---------------------------------------------------------------------------
(* controller.py: the class-level tables *)

ERROR_CODES_TABLE ==
    (0 :> "No Error" @@ 1 :> "Syntax Error" @@ 2 :> "Invalid Command Error"
     @@ 3 :> "Overflow Error" @@ 4 :> "Parse Error"
     @@ 5 :> "Too Few Parameters Error" @@ 6 :> "Too Many Parameters Error"
     @@ 7 :> "Invalid Parameter Error" @@ 8 :> "Wrong Mode Error"
     @@ 129 :> "No Sensor Present Error" @@ 140 :> "Sensor Disabled Error"
     @@ 141 :> "Command Overridden Error" @@ 142 :> "End Stop Reached Error"
     @@ 143 :> "Wrong Sensor Type Error"
     @@ 144 :> "Could Not Find Reference Mark Error"
     @@ 145 :> "Wrong End Effector Type Error" @@ 146 :> "Movement Locked Error"
     @@ 147 :> "Range Limit Reached Error"
     @@ 148 :> "Physical Position Unknown Error"
     @@ 150 :> "Command Not Processable Error"
     @@ 151 :> "Waiting For Trigger Error"
     @@ 152 :> "Command Not Triggerable Error"
     @@ 153 :> "Command Queue Full Error" @@ 154 :> "Invalid Component Error"
     @@ 155 :> "Invalid Sub Component Error" @@ 156 :> "Invalid Property Error"
     @@ 157 :> "Permission Denied Error"
     @@ 159 :> "Power Amplifier Disabled Error")

UNDOCUMENTED_MSG == "There is not message for this error on the documentation"

LINEAR_SENSORS == {1, 5, 6, 9, 18, 21, 24, 32, 35}

ROTARY_SENSORS == {2, 8, 14, 20, 22, 23, 25, 26, 27, 28, 29}

---------------------------------------------------------------------------
(* Python text primitives *)

DigitChar == <<"0", "1", "2", "3", "4", "5", "6", "7", "8", "9">>

IsDigit(c) == \E i \in 1..10 : DigitChar[i] = c

DigitVal(c) == (CHOOSE i \in 1..10 : DigitChar[i] = c) - 1

RECURSIVE NatToStr(_)
NatToStr(n) ==
    IF n < 10 THEN <<DigitChar[n + 1]>>
    ELSE NatToStr(n \div 10) \o <<DigitChar[(n % 10) + 1]>>

\* "%d" % n
IntToStr(n) == IF n < 0 THEN <<"-">> \o NatToStr(-n) ELSE NatToStr(n)

RECURSIVE StrToNat(_)
StrToNat(s) ==
    IF Len(s) = 0 THEN 0
    ELSE 10 * StrToNat(SubSeq(s, 1, Len(s) - 1)) + DigitVal(s[Len(s)])

\* the texts int() accepts: an optional sign and at least one digit
IsIntText(s) ==
    LET body == IF Len(s) > 0 /\ s[1] \in {"-", "+"} THEN Tail(s) ELSE s
    IN  Len(body) > 0 /\ \A i \in 1..Len(body) : IsDigit(body[i])

\* int(s) of such a text
StrToInt(s) ==
    IF s[1] = "-" THEN -StrToNat(Tail(s))
    ELSE IF s[1] = "+" THEN StrToNat(Tail(s))
    ELSE StrToNat(s)

CommaAt(s) == {i \in 1..Len(s) : s[i] = ","}

Max(S) == CHOOSE m \in S : \A n \in S : n <= m

Min(S) == CHOOSE m \in S : \A n \in S : m <= n

\* s.rsplit(',', 1)[1]: the text after the last comma (IndexError without one)
RSplitLast(s) == SubSeq(s, Max(CommaAt(s)) + 1, Len(s))

\* s.split(',')[1]: the second comma-separated field (IndexError without one)
SplitSecond(s) ==
    LET first == Min(CommaAt(s))
        rest == {i \in CommaAt(s) : i > first}
        stop == IF rest = {} THEN Len(s) + 1 ELSE Min(rest)
    IN  SubSeq(s, first + 1, stop - 1)

\* s[1:], the last character kept
Strip_first_only(s) == IF Len(s) <= 1 THEN <<>> ELSE SubSeq(s, 2, Len(s))

\* s[1:-1]
Strip(s) == IF Len(s) <= 2 THEN <<>> ELSE SubSeq(s, 2, Len(s) - 1)

\* "".join([",%d" % i for i in pars])
RECURSIVE JoinPars(_)
JoinPars(pars) ==
    IF Len(pars) = 0 THEN <<>>
    ELSE <<",">> \o IntToStr(Head(pars)) \o JoinPars(Tail(pars))

---------------------------------------------------------------------------
(* Python values and call outcomes *)

\* a validator argument: a single number or a list of numbers
Scalar(n) == [list |-> FALSE, v |-> <<n>>]

List(s) == [list |-> TRUE, v |-> s]

\* a call's outcome: exc is "none" or the exception's type, msg its message
\* (for a protocol error the text of the code), code the protocol error code,
\* ret the value returned, sent the frames written to the transport
Outcome(exc, code, msg, ret, frames) ==
    [exc |-> exc, code |-> code, msg |-> msg, ret |-> ret, sent |-> frames]

NoExc == [exc |-> "none", msg |-> ""]

Raise(exc, msg) == [exc |-> exc, msg |-> msg]

\* the first check that raises, in call order
FirstExc(checks) ==
    LET bad == {i \in 1..Len(checks) : checks[i].exc # "none"}
    IN  IF bad = {} THEN NoExc ELSE checks[Min(bad)]

\* a call that ended in a pre-flight check: nothing was written
Rejected(check) == Outcome(check.exc, 0, check.msg, <<>>, <<>>)

---------------------------------------------------------------------------
(* constants.py: the range validators.  Each returns NoExc or the exception *)
(* it raises.                                                               *)

\* if type(values) is not list: values = [values]
AsList(values) == IF values.list THEN values.v ELSE <<values.v[1]>>

OutOfRange(values, lo, hi) ==
    \E i \in 1..Len(values) : ~(lo <= values[i] /\ values[i] <= hi)

is_angle_in_range(values) ==
    IF OutOfRange(AsList(values), MIN_ANGLE, MAX_ANGLE)
    THEN Raise("ValueError", "Valid angle range: [0, 359999999] s")
    ELSE NoExc

is_angle_relative_in_range(values) ==
    IF OutOfRange(AsList(values), -MAX_ANGLE, MAX_ANGLE)
    THEN Raise("ValueError", "Valid relative angle range: [-359999999, 359999999] s")
    ELSE NoExc

\* the validator with the upper bound excluded
is_acceleration_in_range_strict(values) ==
    IF \E i \in 1..Len(AsList(values)) :
           ~(0 <= AsList(values)[i] /\ AsList(values)[i] < MAX_ACCELERATION)
    THEN Raise("ValueError", "Valid acceleration range: [0,100000000] um/s^2")
    ELSE NoExc

is_acceleration_in_range(values) ==
    IF OutOfRange(AsList(values), 0, MAX_ACCELERATION)
    THEN Raise("ValueError", "Valid acceleration range: [0,100000000] um/s^2")
    ELSE NoExc

is_revolution_in_range(values) ==
    IF OutOfRange(AsList(values), MIN_REV, MAX_REV)
    THEN Raise("ValueError", "Valid revolution range: [-32768, 32767] s")
    ELSE NoExc

\* "values = (values)" wraps nothing: the loop iterates over the argument
\* itself, which raises TypeError when it is a single number
is_steps_in_range(values) ==
    IF ~values.list
    THEN Raise("TypeError", "'int' object is not iterable")
    ELSE IF \E i \in 1..Len(values.v) :
                \/ (IF values.v[i] < 0 THEN -values.v[i] ELSE values.v[i]) > MAX_STEPS
                \/ values.v[i] = 0
         THEN Raise("ValueError", "Valid step range is [-30000, 30000]")
         ELSE NoExc

is_amplitude_in_range(values) ==
    IF \E i \in 1..Len(AsList(values)) :
           AsList(values)[i] < 0 \/ AsList(values)[i] > MAX_AMPLITUDE
    THEN Raise("ValueError", "Valid amplitude range is (0, 4095)")
    ELSE NoExc

is_frequency_in_range(values) ==
    IF \E i \in 1..Len(AsList(values)) :
           AsList(values)[i] < 0 \/ AsList(values)[i] > MAX_FREQUENCY
    THEN Raise("ValueError", "Valid frequency range is (0, 18500]")
    ELSE NoExc

is_velocity_in_range(values) ==
    IF OutOfRange(AsList(values), 0, MAX_VELOCITY)
    THEN Raise("ValueError", "Valid velocity range: [0,1000000000] nm/s")
    ELSE NoExc

is_speed_in_range(values) ==
    IF OutOfRange(AsList(values), MIN_SPEED, MAX_SPEED)
    THEN Raise("ValueError", "Valid speed range: [1,225000] Volts/s")
    ELSE NoExc

is_force_in_range(values) ==
    IF OutOfRange(AsList(values), MIN_FORCE, MAX_FORCE)
    THEN Raise("ValueError", "Valid force range: [-10000000,10000000] 10 x uN")
    ELSE NoExc

is_opening_in_range(values) ==
    IF OutOfRange(AsList(values), MIN_OPENING, MAX_OPENING)
    THEN Raise("ValueError", "Valid opening range: [0,22500] 1/100 Volts")
    ELSE NoExc

is_opening_relative_in_range(values) ==
    IF OutOfRange(AsList(values), -MAX_OPENING, MAX_OPENING)
    THEN Raise("ValueError", "Valid relative opening range: [-22500,22500] 1/100 Volts")
    ELSE NoExc

is_target_in_range(values) ==
    IF OutOfRange(AsList(values), MIN_TARGET, MAX_TARGET)
    THEN Raise("ValueError", "Valid target range: [0,4095] (12-bit)")
    ELSE NoExc

is_target_relative_in_range(values) ==
    IF OutOfRange(AsList(values), -MAX_TARGET, MAX_TARGET)
    THEN Raise("ValueError", "Valid relative target range: [-4095,4095] (12-bit)")
    ELSE NoExc

\* MAX_SCAN_SPEED = 4095e6 is above every 32-bit integer, the only numbers the
\* model draws, so "value <= MAX_SCAN_SPEED" is true of each of them
is_scan_speed_in_range(values) ==
    IF \E i \in 1..Len(AsList(values)) : ~(MIN_SCAN_SPEED <= AsList(values)[i])
    THEN Raise("ValueError", "Valid scan speed range: [0,4095] (12-bit/s)")
    ELSE NoExc

is_trigger_in_range(values) ==
    IF OutOfRange(AsList(values), MIN_TRIGGER, MAX_TRIGGER)
    THEN Raise("ValueError", "Valid trigger range: [0,255]")
    ELSE NoExc

\* the message is built from MIN_TRIGGER and MAX_TRIGGER in the source
is_baudrate_in_range(values) ==
    IF OutOfRange(AsList(values), MIN_BAUDRATE, MAX_BAUDRATE)
    THEN Raise("ValueError", "Valid baudrate range: [0,255]")
    ELSE NoExc

is_row_in_range(values) ==
    IF \E i \in 1..Len(AsList(values)) :
           AsList(values)[i] < 0 \/ AsList(values)[i] > 7
    THEN Raise("ValueError", "Valid row range is [0,7]")
    ELSE NoExc

is_hold_time_in_range(values) ==
    IF OutOfRange(AsList(values), MIN_HOLD_TIME, MAX_HOLD_TIME)
    THEN Raise("ValueError", "Valid hold time range: [0,60000] ms")
    ELSE NoExc

---------------------------------------------------------------------------
(* communication.py *)

\* SerialCom / SerialTangoCom / SocketCom send_cmd: the frame is written and
\* the device's raw answer is read
Transport_send_cmd(frame, raw) == [sent |-> <<frame>>, ans |-> raw]

\* SmaractCommunication.send_cmd
SmaractCommunication_send_cmd(cmd, raw) ==
    LET t == Transport_send_cmd(<<":">> \o cmd \o <<"\n">>, raw)
    IN  [sent |-> t.sent, ans |-> Strip(t.ans)]

---------------------------------------------------------------------------
(* controller.py *)

\* the lookup without the table: every code gets the generic message
error_msg_generic(error_code) == UNDOCUMENTED_MSG

\* the message looked up for a non-zero error code
error_msg(error_code) ==
    IF error_code \in DOMAIN ERROR_CODES THEN ERROR_CODES[error_code]
    ELSE UNDOCUMENTED_MSG

\* SmaractBaseController.send_cmd
send_cmd(cmd, raw) ==
    LET c == SmaractCommunication_send_cmd(cmd, raw)
        ans == c.ans
        returned == Outcome("none", 0, "", ans, c.sent)
    IN  IF Len(ans) = 0
        THEN Outcome("IndexError", 0, "string index out of range", <<>>, c.sent)
        ELSE IF ans[1] # "E" THEN returned
        ELSE IF Len(ans) < 2
        THEN Outcome("IndexError", 0, "string index out of range", <<>>, c.sent)
        ELSE IF ans[2] = "S" THEN returned
        ELSE IF CommaAt(ans) = {}
        THEN Outcome("IndexError", 0, "list index out of range", <<>>, c.sent)
        ELSE IF ~IsIntText(RSplitLast(ans))
        THEN Outcome("ValueError", 0, "invalid literal for int()", <<>>, c.sent)
        ELSE LET error_code == StrToInt(RSplitLast(ans))
             IN  IF error_code # 0
                 THEN Outcome("RuntimeError", error_code, error_msg(error_code),
                              <<>>, c.sent)
                 ELSE returned

\* is_trigger_in_range(int(trigger_idx)); 'TC%d' % (trigger_idx + TRIGGER_INDEX_0)
trigger_command(trigger_idx, raw) ==
    LET v == is_trigger_in_range(Scalar(trigger_idx))
    IN  IF v.exc # "none" THEN Rejected(v)
        ELSE LET r == send_cmd(<<"T", "C">> \o IntToStr(trigger_idx + TRIGGER_INDEX_0), raw)
             IN  IF r.exc # "none" THEN r ELSE [r EXCEPT !.ret = <<>>]

\* int(ans[2:]) of the answer to BR
configure_baudrate(baudrate, raw) ==
    LET v == is_baudrate_in_range(Scalar(baudrate))
    IN  IF v.exc # "none" THEN Rejected(v)
        ELSE LET r == send_cmd(<<"B", "R">> \o IntToStr(baudrate), raw)
                 digits == SubSeq(r.ret, 3, Len(r.ret))
             IN  IF r.exc # "none" THEN r
                 ELSE IF ~IsIntText(digits)
                 THEN Outcome("ValueError", 0, "invalid literal for int()", <<>>, r.sent)
                 ELSE [r EXCEPT !.ret = IntToStr(StrToInt(digits))]

---------------------------------------------------------------------------
(* axis.py: SmaractBaseAxis *)

\* "%s%d" % (str_cmd, self._axis_nr) followed by ",%d" for each parameter
_send_cmd(str_cmd, axis_nr, pars, raw) ==
    send_cmd(str_cmd \o IntToStr(axis_nr) \o JoinPars(pars), raw)

\* a command whose answer is not looked at: the method returns None
Command(r) == IF r.exc # "none" THEN r ELSE [r EXCEPT !.ret = <<>>]

\* int(ans.split(',')[1]) of the answer to GS; ret is the code as a text
state(axis_nr, raw) ==
    LET r == _send_cmd(<<"G", "S">>, axis_nr, <<>>, raw)
    IN  IF r.exc # "none" THEN r
        ELSE IF CommaAt(r.ret) = {}
        THEN Outcome("IndexError", 0, "list index out of range", <<>>, r.sent)
        ELSE IF ~IsIntText(SplitSecond(r.ret))
        THEN Outcome("ValueError", 0, "invalid literal for int()", <<>>, r.sent)
        ELSE [r EXCEPT !.code = StrToInt(SplitSecond(r.ret)),
                       !.ret = IntToStr(StrToInt(SplitSecond(r.ret)))]

\* (state_code, Status.states_txt[state_code], Status.status_txt[state_code]);
\* code carries state_code, msg the state text, ret the status sentence
status(axis_nr, raw) ==
    LET s == state(axis_nr, raw)
        state_code == s.code
    IN  IF s.exc # "none" THEN s
        ELSE IF state_code \notin DOMAIN states_txt
        THEN Outcome("KeyError", state_code, "", <<>>, s.sent)
        ELSE IF state_code \notin DOMAIN status_txt
        THEN Outcome("KeyError", state_code, "", <<>>, s.sent)
        ELSE Outcome("none", state_code, states_txt[state_code],
                     <<status_txt[state_code]>>, s.sent)

calibrate_sensor(axis_nr, raw) == Command(_send_cmd(<<"C", "S">>, axis_nr, <<>>, raw))

\* the search followed by a look at whether the position is known
find_reference_mark_polling(axis_nr, direction, hold_time, auto_zero, raw) ==
    LET r == Command(_send_cmd(<<"F", "R", "M">>, axis_nr,
                               <<direction, hold_time, auto_zero>>, raw))
        k == _send_cmd(<<"G", "P", "P", "K">>, axis_nr, <<>>, raw)
    IN  [r EXCEPT !.sent = r.sent \o k.sent]

find_reference_mark(axis_nr, direction, hold_time, auto_zero, raw) ==
    Command(_send_cmd(<<"F", "R", "M">>, axis_nr,
                      <<direction, hold_time, auto_zero>>, raw))

\* steps, amplitude and frequency are single numbers
move_step(axis_nr, steps, amplitude, frequency, raw) ==
    LET v == FirstExc(<<is_steps_in_range(Scalar(steps)),
                        is_amplitude_in_range(Scalar(amplitude)),
                        is_frequency_in_range(Scalar(frequency))>>)
    IN  IF v.exc # "none" THEN Rejected(v)
        ELSE Command(_send_cmd(<<"M", "S", "T">>, axis_nr,
                               <<steps, amplitude, frequency>>, raw))

\* the stop preceded by a look at the state
stop_checked(axis_nr, raw) ==
    LET s == state(axis_nr, raw)
        r == Command(_send_cmd(<<"S">>, axis_nr, <<>>, raw))
    IN  [r EXCEPT !.sent = s.sent \o r.sent]

stop(axis_nr, raw) == Command(_send_cmd(<<"S">>, axis_nr, <<>>, raw))

---------------------------------------------------------------------------
(* axis.py: SmaractSDCAxis *)

SplitLast(s) == IF CommaAt(s) = {} THEN s ELSE RSplitLast(s)

\* float(ans.split(',')[-1]): the answers of the model carry whole numbers
LastFieldAsNumber(r) ==
    IF r.exc # "none" THEN r
    ELSE IF ~IsIntText(SplitLast(r.ret))
    THEN Outcome("ValueError", 0, "could not convert string to float", <<>>, r.sent)
    ELSE [r EXCEPT !.ret = IntToStr(StrToInt(SplitLast(r.ret)))]

get_table_entry(axis_nr, table, row, raw) ==
    LET v == is_row_in_range(Scalar(row))
    IN  IF v.exc # "none" THEN Rejected(v)
        ELSE LastFieldAsNumber(_send_cmd(<<"G", "T", "E">>, axis_nr, <<table, row>>, raw))

set_table_entry(axis_nr, table, row, value, raw) ==
    LET v == is_row_in_range(Scalar(row))
    IN  IF v.exc # "none" THEN Rejected(v)
        ELSE Command(_send_cmd(<<"S", "T", "E">>, axis_nr, <<table, row, value>>, raw))

---------------------------------------------------------------------------
(* axis.py: SmaractMCSBaseAxis *)

set_closed_loop_acc(axis_nr, acceleration, raw) ==
    LET v == is_acceleration_in_range(Scalar(acceleration))
    IN  IF v.exc # "none" THEN Rejected(v)
        ELSE Command(_send_cmd(<<"S", "C", "L", "A">>, axis_nr, <<acceleration>>, raw))

set_closed_loop_vel(axis_nr, velocity, raw) ==
    LET v == is_velocity_in_range(Scalar(velocity))
    IN  IF v.exc # "none" THEN Rejected(v)
        ELSE Command(_send_cmd(<<"S", "C", "L", "S">>, axis_nr, <<velocity>>, raw))

force(axis_nr, raw) == LastFieldAsNumber(_send_cmd(<<"G", "F">>, axis_nr, <<>>, raw))

gripper_opening(axis_nr, raw) ==
    LastFieldAsNumber(_send_cmd(<<"G", "G", "O">>, axis_nr, <<>>, raw))

set_closed_loop_max_freq(axis_nr, frequency, raw) ==
    LET v == is_frequency_in_range(Scalar(frequency))
    IN  IF v.exc # "none" THEN Rejected(v)
        ELSE Command(_send_cmd(<<"S", "C", "L", "F">>, axis_nr, <<frequency>>, raw))

move_gripper_force_absolute(axis_nr, frc, speed, hold_time, raw) ==
    LET v == FirstExc(<<is_force_in_range(Scalar(frc)),
                        is_speed_in_range(Scalar(speed)),
                        is_hold_time_in_range(Scalar(hold_time))>>)
    IN  IF v.exc # "none" THEN Rejected(v)
        ELSE Command(_send_cmd(<<"M", "G", "F", "A">>, axis_nr,
                               <<frc, speed, hold_time>>, raw))

move_gripper_opening_absolute(axis_nr, opening, speed, raw) ==
    LET v == FirstExc(<<is_opening_in_range(Scalar(opening)),
                        is_speed_in_range(Scalar(speed))>>)
    IN  IF v.exc # "none" THEN Rejected(v)
        ELSE Command(_send_cmd(<<"M", "G", "O", "A">>, axis_nr, <<opening, speed>>, raw))

move_gripper_opening_relative(axis_nr, opening, speed, raw) ==
    LET v == FirstExc(<<is_opening_relative_in_range(Scalar(opening)),
                        is_speed_in_range(Scalar(speed))>>)
    IN  IF v.exc # "none" THEN Rejected(v)
        ELSE Command(_send_cmd(<<"M", "G", "O", "R">>, axis_nr, <<opening, speed>>, raw))

move_scan_absolute(axis_nr, target, scan_speed, raw) ==
    LET v == FirstExc(<<is_target_in_range(Scalar(target)),
                        is_scan_speed_in_range(Scalar(scan_speed))>>)
    IN  IF v.exc # "none" THEN Rejected(v)
        ELSE Command(_send_cmd(<<"M", "S", "C", "A">>, axis_nr, <<target, scan_speed>>, raw))

move_scan_relative(axis_nr, target, scan_speed, raw) ==
    LET v == FirstExc(<<is_target_relative_in_range(Scalar(target)),
                        is_scan_speed_in_range(Scalar(scan_speed))>>)
    IN  IF v.exc # "none" THEN Rejected(v)
        ELSE Command(_send_cmd(<<"M", "S", "C", "R">>, axis_nr, <<target, scan_speed>>, raw))

---------------------------------------------------------------------------
(* axis.py: SmaractMCSAngularAxis *)

\* int(a / TURN) with TURN a float: the quotient truncated toward zero
TruncDiv(a, b) == IF a >= 0 THEN a \div b ELSE -((-a) \div b)

\* <<angle, revolutions>>; position % TURN has the sign of TURN
_angle_rev(position) ==
    LET sign == IF position < 0 THEN -1 ELSE 0
        angle == position % TURN
        revolutions == TruncDiv(position, TURN) + sign
    IN  <<angle, revolutions>>

move_angle_absolute(axis_nr, angle, rev, hold_time, raw) ==
    LET v == FirstExc(<<is_angle_in_range(Scalar(angle)),
                        is_revolution_in_range(Scalar(rev)),
                        is_hold_time_in_range(Scalar(hold_time))>>)
    IN  IF v.exc # "none" THEN Rejected(v)
        ELSE Command(_send_cmd(<<"M", "A", "A">>, axis_nr, <<angle, rev, hold_time>>, raw))

move_angle_relative(axis_nr, angle, rev, hold_time, raw) ==
    LET v == FirstExc(<<is_angle_relative_in_range(Scalar(angle)),
                        is_revolution_in_range(Scalar(rev)),
                        is_hold_time_in_range(Scalar(hold_time))>>)
    IN  IF v.exc # "none" THEN Rejected(v)
        ELSE Command(_send_cmd(<<"M", "A", "R">>, axis_nr, <<angle, rev, hold_time>>, raw))

AngularAxis_move(axis_nr, position, hold_time, raw) ==
    LET ar == _angle_rev(position)
    IN  move_angle_absolute(axis_nr, ar[1], ar[2], hold_time, raw)

---------------------------------------------------------------------------
(* axis.py: SmaractMCSLinearAxis *)

move_position_absolute(axis_nr, position, hold_time, raw) ==
    LET v == is_hold_time_in_range(Scalar(hold_time))
    IN  IF v.exc # "none" THEN Rejected(v)
        ELSE Command(_send_cmd(<<"M", "P", "A">>, axis_nr, <<position, hold_time>>, raw))

move_position_relative(axis_nr, position, hold_time, raw) ==
    LET v == is_hold_time_in_range(Scalar(hold_time))
    IN  IF v.exc # "none" THEN Rejected(v)
        ELSE Command(_send_cmd(<<"M", "P", "R">>, axis_nr, <<position, hold_time>>, raw))

LinearAxis_move(axis_nr, position, hold_time, raw) ==
    move_position_absolute(axis_nr, position, hold_time, raw)

---------------------------------------------------------------------------
(* SmaractMCSCtrl.py: the Sardana adapter *)

\* the Sardana state of a status code
SardanaState(state_code) ==
    IF state_code \in {STOPPED, HOLDING, WAITING} THEN "On"
    ELSE IF state_code \in {STEPPING, SCANNING, TARGETING, CALIBRATING, HOMING}
    THEN "Moving"
    ELSE IF state_code \in {LOCKED} THEN "Disable"
    ELSE "Fault"

\* (state, status) of the motor of adapter axis axis_nr + 1; msg carries state
StateOne(axis_nr, raw) ==
    LET s == status(axis_nr, raw)
    IN  IF s.exc # "none" THEN s ELSE [s EXCEPT !.msg = SardanaState(s.code)]

---------------------------------------------------------------------------
(* The device: the raw answer lines the transport reads *)

Answer(payload) == <<":">> \o payload \o <<"\n">>

\* the acknowledge / error answer ":E<channel>,<code>"
ErrorAnswer(ch, code) == Answer(<<"E">> \o IntToStr(ch) \o <<",">> \o IntToStr(code))

\* the answer to GS, ":S<channel>,<status>"
StatusAnswer(ch, code) == Answer(<<"S">> \o IntToStr(ch) \o <<",">> \o IntToStr(code))

ErrorCodeSample == {0, 1, 99, 157}

StatusCodeSample == 0..9 \cup {255}

\* a value answer ("P,3,1500") and an answer that starts with "ES"
ValueAnswers ==
    {Answer(<<"P", ",", "3", ",", "1", "5", "0", "0">>),
     Answer(<<"E", "S", "0", ",", "5">>)}

\* what a timed-out or cut read hands back: nothing, an empty line, a lone
\* "E", a flagged payload without a code, a flagged payload whose code is no number
BrokenAnswers ==
    {<<>>, Answer(<<>>), Answer(<<"E">>), Answer(<<"E", "X">>),
     Answer(<<"E", "0", ",", "x">>)}

CommandAnswers(ch) ==
    {ErrorAnswer(ch, code) : code \in ErrorCodeSample} \cup ValueAnswers \cup BrokenAnswers

StatusAnswers(ch) ==
    {StatusAnswer(ch, code) : code \in StatusCodeSample}
        \cup {ErrorAnswer(ch, code) : code \in ErrorCodeSample} \cup BrokenAnswers

---------------------------------------------------------------------------
(* The arguments the calls are made with *)

Positions ==
    {k * TURN + d : k \in (-MaxTurns)..MaxTurns, d \in {-1, 0, 1, 40000000}}
        \cup {-1000000000, 1000000000}

LinearPositions == {-1, 0, 1500}

HoldTimes == {-1, 0, 60000, 60001}

Angles == {-1, 0, 359999999, 360000000}

RelAngles == {-360000000, -359999999, 359999999, 360000000}

Revs == {-32769, -32768, 32767, 32768}

Steps == {-30001, -30000, -1, 0, 1, 30000, 30001}

Amplitudes == {-1, 0, 4095, 4096}

Frequencies == {-1, 0, 18500, 18501}

Targets == {-1, 0, 4095, 4096}

RelTargets == {-4096, -4095, 4095, 4096}

ScanSpeeds == {-1, 0, 2000000000}

Forces == {-10000001, -10000000, 10000000, 10000001}

Speeds == {0, 1, 225000, 225001}

Openings == {-1, 0, 22500, 22501}

RelOpenings == {-22501, -22500, 22500, 22501}

Velocities == {-1, 0, 1000000000, 1000000001}

Accelerations == {-1, 0, 1, 99999999, 100000000, 100000001}

Tables == {TableIndex_SI, TableIndex_MF, TableIndex_ST}

Rows == {-1, 0, 7, 8}

TableValues == {0, 5}

Triggers == {-1, 0, 255, 256}

Baudrates == {9599, 9600, 115200, 115201}

SensorCodeSample == {1, 2}

\* the command texts handed to Controller.send_cmd directly: GSI, GNC, GP3
CommandTexts == {<<"G", "S", "I">>, <<"G", "N", "C">>, <<"G", "P", "3">>}

ListsOf(S) == UNION {[1..n -> S] : n \in 0..MaxLen}

PyValues(S) == {Scalar(n) : n \in S} \cup {List(l) : l \in ListsOf(S)}

---------------------------------------------------------------------------
(* State *)

NoCall == [op |-> "none", axis |-> -1, args |-> <<>>, answer |-> <<>>]

NoResult == [exc |-> "none", code |-> 0, msg |-> "", ret |-> <<>>]

\* the classes of the two sensor lists exchanged
AxisClass_swapped(sensor_code) ==
    IF sensor_code \in LINEAR_SENSORS THEN "Angular"
    ELSE IF sensor_code \in ROTARY_SENSORS THEN "Linear"
    ELSE "none"

\* _create_axes: the axis class of a sensor code
AxisClass(sensor_code) ==
    IF sensor_code \in LINEAR_SENSORS THEN "Linear"
    ELSE IF sensor_code \in ROTARY_SENSORS THEN "Angular"
    ELSE "none"

\* an axis object: its class, its _axis_nr and the enumeration that made it
Axis(cls, axis_nr, gen) == [cls |-> cls, axis_nr |-> axis_nr, gen |-> gen]

\* SmaractMCSController: one axis per channel, by its sensor code;
\* SmaractSDCController: one SmaractSDCAxis
ControllerLists ==
    {<<Axis("SDC", 0, 1)>>} \cup
    UNION {{[i \in 1..n |-> Axis(AxisClass(codes[i]), i - 1, 1)]
              : codes \in [1..n -> SensorCodeSample]}
           : n \in 1..MaxChannels}

\* the controller is built and no enumeration is running
BuildReady ==
    [pc |-> "ready", constructed |-> TRUE, done |-> TRUE, codes |-> <<>>,
     scm |-> <<>>, n |-> 0, k |-> 0, gen |-> 1, oldlen |-> 0]

NoObservation == [len |-> -1, rebuilding |-> FALSE, frame |-> <<>>]

\* the transport is open and no thread is inside send_cmd
ConnOpen == [state |-> "open", exc |-> "none", msg |-> "", cause |-> ""]

\* nothing of the device is waiting to be read or on its way
NoInput == [ready |-> <<>>, later |-> <<>>]

\* no device is followed: its answers are inputs of the calls
NoDevice == <<>>

Init ==
    /\ comm_type \in {CommType_Serial, CommType_SerialTango, CommType_Socket}
    /\ axes \in ControllerLists
    /\ ERROR_CODES = ERROR_CODES_TABLE
    /\ call = NoCall
    /\ sent = <<>>
    /\ result = NoResult
    /\ build = BuildReady
    /\ first_frame = <<>>
    /\ errors = {}
    /\ observed = NoObservation
    /\ conn = ConnOpen
    /\ th = <<>>
    /\ inbuf = NoInput
    /\ wire = <<>>
    /\ device = NoDevice
    /\ _axes = <<>>

\* the channel numbers of the axes of the given classes
AxesOf(classes) == {axes[j].axis_nr : j \in {i \in 1..Len(axes) : axes[i].cls \in classes}}

AnyAxis == {"Linear", "Angular", "SDC"}

MCSAxis == {"Linear", "Angular"}

IsMCS == \A i \in 1..Len(axes) : axes[i].cls \in MCSAxis

\* no call is in progress
Idle == call.op = "none"

\* the call op(args) on axis axis_nr ends as r says; answer is what was read
Do(op, axis_nr, args, raw, r) ==
    /\ call' = [op |-> op, axis |-> axis_nr, args |-> args,
                answer |-> IF r.sent = <<>> THEN <<>> ELSE raw]
    /\ sent' = r.sent
    /\ result' = [exc |-> r.exc, code |-> r.code, msg |-> r.msg, ret |-> r.ret]
    /\ UNCHANGED <<comm_type, axes, ERROR_CODES, buildVars, ioVars, devVars>>

\* the caller has taken the outcome of the call
Return ==
    /\ call.op # "none"
    /\ call' = NoCall
    /\ sent' = <<>>
    /\ result' = NoResult
    /\ UNCHANGED <<comm_type, axes, ERROR_CODES, buildVars, ioVars, devVars>>

---------------------------------------------------------------------------
(* The calls *)

CallSendCmd ==
    /\ Idle
    /\ \E cmd \in CommandTexts :
       \E raw \in CommandAnswers(0) \cup StatusAnswers(0) \cup {Answer(cmd)} :
           Do("send_cmd", -1, cmd, raw, send_cmd(cmd, raw))

CallTriggerCommand ==
    /\ Idle
    /\ IsMCS
    /\ \E trigger_idx \in Triggers, raw \in CommandAnswers(0) :
           Do("trigger_command", -1, <<trigger_idx>>, raw,
              trigger_command(trigger_idx, raw))

CallConfigureBaudrate ==
    /\ Idle
    /\ IsMCS
    /\ \E baudrate \in Baudrates, raw \in CommandAnswers(0) :
           Do("configure_baudrate", -1, <<baudrate>>, raw,
              configure_baudrate(baudrate, raw))

CallStatus ==
    /\ Idle
    /\ \E c \in AxesOf(AnyAxis) : \E raw \in StatusAnswers(c) :
           Do("status", c, <<>>, raw, status(c, raw))

CallStateOne ==
    /\ Idle
    /\ IsMCS
    /\ \E c \in AxesOf(MCSAxis) : \E raw \in StatusAnswers(c) :
           Do("StateOne", c, <<>>, raw, StateOne(c, raw))

CallMoveStep ==
    /\ Idle
    /\ \E c \in AxesOf(AnyAxis) :
           \E steps \in Steps, amplitude \in Amplitudes, frequency \in Frequencies,
              raw \in CommandAnswers(c) :
               Do("move_step", c, <<steps, amplitude, frequency>>, raw,
                  move_step(c, steps, amplitude, frequency, raw))

CallGetTableEntry ==
    /\ Idle
    /\ \E c \in AxesOf({"SDC"}) :
           \E table \in Tables, row \in Rows, raw \in CommandAnswers(c) :
               Do("get_table_entry", c, <<table, row>>, raw,
                  get_table_entry(c, table, row, raw))

CallSetTableEntry ==
    /\ Idle
    /\ \E c \in AxesOf({"SDC"}) :
           \E table \in Tables, row \in Rows, value \in TableValues,
              raw \in CommandAnswers(c) :
               Do("set_table_entry", c, <<table, row, value>>, raw,
                  set_table_entry(c, table, row, value, raw))

CallSetClosedLoopAcc ==
    /\ Idle
    /\ \E c \in AxesOf(MCSAxis) :
           \E acceleration \in Accelerations, raw \in CommandAnswers(c) :
               Do("closed_loop_acc", c, <<acceleration>>, raw,
                  set_closed_loop_acc(c, acceleration, raw))

CallSetClosedLoopVel ==
    /\ Idle
    /\ \E c \in AxesOf(MCSAxis) :
           \E velocity \in Velocities, raw \in CommandAnswers(c) :
               Do("closed_loop_vel", c, <<velocity>>, raw,
                  set_closed_loop_vel(c, velocity, raw))

CallSetClosedLoopMaxFreq ==
    /\ Idle
    /\ \E c \in AxesOf(MCSAxis) :
           \E frequency \in Frequencies, raw \in CommandAnswers(c) :
               Do("set_closed_loop_max_freq", c, <<frequency>>, raw,
                  set_closed_loop_max_freq(c, frequency, raw))

CallForce ==
    /\ Idle
    /\ \E c \in AxesOf(MCSAxis) : \E raw \in CommandAnswers(c) :
           Do("force", c, <<>>, raw, force(c, raw))

CallGripperOpening ==
    /\ Idle
    /\ \E c \in AxesOf(MCSAxis) : \E raw \in CommandAnswers(c) :
           Do("gripper_opening", c, <<>>, raw, gripper_opening(c, raw))

CallMoveGripperForceAbsolute ==
    /\ Idle
    /\ \E c \in AxesOf(MCSAxis) :
           \E frc \in Forces, speed \in Speeds, hold_time \in HoldTimes,
              raw \in CommandAnswers(c) :
               Do("move_gripper_force_absolute", c, <<frc, speed, hold_time>>, raw,
                  move_gripper_force_absolute(c, frc, speed, hold_time, raw))

CallMoveGripperOpeningAbsolute ==
    /\ Idle
    /\ \E c \in AxesOf(MCSAxis) :
           \E opening \in Openings, speed \in Speeds, raw \in CommandAnswers(c) :
               Do("move_gripper_opening_absolute", c, <<opening, speed>>, raw,
                  move_gripper_opening_absolute(c, opening, speed, raw))

CallMoveGripperOpeningRelative ==
    /\ Idle
    /\ \E c \in AxesOf(MCSAxis) :
           \E opening \in RelOpenings, speed \in Speeds, raw \in CommandAnswers(c) :
               Do("move_gripper_opening_relative", c, <<opening, speed>>, raw,
                  move_gripper_opening_relative(c, opening, speed, raw))

CallMoveScanAbsolute ==
    /\ Idle
    /\ \E c \in AxesOf(MCSAxis) :
           \E target \in Targets, scan_speed \in ScanSpeeds, raw \in CommandAnswers(c) :
               Do("move_scan_absolute", c, <<target, scan_speed>>, raw,
                  move_scan_absolute(c, target, scan_speed, raw))

CallMoveScanRelative ==
    /\ Idle
    /\ \E c \in AxesOf(MCSAxis) :
           \E target \in RelTargets, scan_speed \in ScanSpeeds, raw \in CommandAnswers(c) :
               Do("move_scan_relative", c, <<target, scan_speed>>, raw,
                  move_scan_relative(c, target, scan_speed, raw))

CallMoveAngleAbsolute ==
    /\ Idle
    /\ \E c \in AxesOf({"Angular"}) :
           \E angle \in Angles, rev \in Revs, hold_time \in HoldTimes,
              raw \in CommandAnswers(c) :
               Do("move_angle_absolute", c, <<angle, rev, hold_time>>, raw,
                  move_angle_absolute(c, angle, rev, hold_time, raw))

CallMoveAngleRelative ==
    /\ Idle
    /\ \E c \in AxesOf({"Angular"}) :
           \E angle \in RelAngles, rev \in Revs, hold_time \in HoldTimes,
              raw \in CommandAnswers(c) :
               Do("move_angle_relative", c, <<angle, rev, hold_time>>, raw,
                  move_angle_relative(c, angle, rev, hold_time, raw))

CallAngularMove ==
    /\ Idle
    /\ \E c \in AxesOf({"Angular"}) :
           \E position \in Positions, hold_time \in HoldTimes, raw \in CommandAnswers(c) :
               Do("angular_move", c, <<position, hold_time>>, raw,
                  AngularAxis_move(c, position, hold_time, raw))

\* the decomposition called on its own; ret is <<angle, revolutions>>
CallAngleRev ==
    /\ Idle
    /\ \E c \in AxesOf({"Angular"}) :
           \E position \in Positions :
               Do("_angle_rev", c, <<position>>, <<>>,
                  Outcome("none", 0, "", _angle_rev(position), <<>>))

CallMovePositionAbsolute ==
    /\ Idle
    /\ \E c \in AxesOf({"Linear"}) :
           \E position \in LinearPositions, hold_time \in HoldTimes,
              raw \in CommandAnswers(c) :
               Do("move_position_absolute", c, <<position, hold_time>>, raw,
                  move_position_absolute(c, position, hold_time, raw))

CallMovePositionRelative ==
    /\ Idle
    /\ \E c \in AxesOf({"Linear"}) :
           \E position \in LinearPositions, hold_time \in HoldTimes,
              raw \in CommandAnswers(c) :
               Do("move_position_relative", c, <<position, hold_time>>, raw,
                  move_position_relative(c, position, hold_time, raw))

CallLinearMove ==
    /\ Idle
    /\ \E c \in AxesOf({"Linear"}) :
           \E position \in LinearPositions, hold_time \in HoldTimes,
              raw \in CommandAnswers(c) :
               Do("linear_move", c, <<position, hold_time>>, raw,
                  LinearAxis_move(c, position, hold_time, raw))

\* the validators called on their own, with a single number or a list
CallIsAccelerationInRange ==
    /\ Idle
    /\ \E values \in PyValues(Accelerations) :
           Do("is_acceleration_in_range", -1, <<values>>, <<>>,
              Rejected(is_acceleration_in_range(values)))

CallIsStepsInRange ==
    /\ Idle
    /\ \E values \in PyValues(Steps) :
           Do("is_steps_in_range", -1, <<values>>, <<>>,
              Rejected(is_steps_in_range(values)))

\* mnemonics of axis commands without, with one and with several parameters
MnemonicSample == {<<"G", "P">>, <<"S">>, <<"M", "S", "T">>, <<"M", "A", "A">>}

ParameterSample == {-5, 0, 1500}

\* SmaractBaseAxis._send_cmd(str_cmd, *pars); the device answers with the
\* acknowledge, with a value, or it echoes the frame
CallAxisSendCmd ==
    /\ Idle
    /\ \E axis_nr \in AxesOf(AnyAxis), str_cmd \in MnemonicSample,
          pars \in ListsOf(ParameterSample) :
       \E raw \in {ErrorAnswer(axis_nr, 0), Answer(<<"P", ",", "3", ",", "1", "5", "0", "0">>),
                   Answer(str_cmd \o IntToStr(axis_nr) \o JoinPars(pars))} :
           Do("_send_cmd", axis_nr, [str_cmd |-> str_cmd, pars |-> pars], raw,
              _send_cmd(str_cmd, axis_nr, pars, raw))

Next ==
    \/ CallSendCmd
    \/ CallAxisSendCmd
    \/ CallTriggerCommand
    \/ CallConfigureBaudrate
    \/ CallStatus
    \/ CallStateOne
    \/ CallMoveStep
    \/ CallGetTableEntry
    \/ CallSetTableEntry
    \/ CallSetClosedLoopAcc
    \/ CallSetClosedLoopVel
    \/ CallSetClosedLoopMaxFreq
    \/ CallForce
    \/ CallGripperOpening
    \/ CallMoveGripperForceAbsolute
    \/ CallMoveGripperOpeningAbsolute
    \/ CallMoveGripperOpeningRelative
    \/ CallMoveScanAbsolute
    \/ CallMoveScanRelative
    \/ CallMoveAngleAbsolute
    \/ CallMoveAngleRelative
    \/ CallAngularMove
    \/ CallAngleRev
    \/ CallMovePositionAbsolute
    \/ CallMovePositionRelative
    \/ CallLinearMove
    \/ CallIsAccelerationInRange
    \/ CallIsStepsInRange
    \/ Return

Spec == Init /\ [][Next]_vars

---------------------------------------------------------------------------
(* SmaractMCSController.__init__ and _create_axes, step by step.  One step  *)
(* is one command sent through send_cmd together with what the code does   *)
(* with its answer; the steps of _create_axes are separate, because the    *)
(* code holds no lock over them and other threads run in between.          *)

\* what a transport's send_cmd ends with: the line read, or an exception
Reads(answers) ==
    {[fail |-> FALSE, raw |-> a, cause |-> ""] : a \in answers}
        \cup {[fail |-> TRUE, raw |-> <<>>, cause |-> "timed out"]}

\* comm_error_handler: 'Problem with the communication. Verify the
\* hardware. Error: %s' % e
CommFailureMsg(cause) ==
    IF cause = "write failed"
    THEN "Problem with the communication. Verify the hardware. Error: write failed"
    ELSE IF cause = "timed out"
    THEN "Problem with the communication. Verify the hardware. Error: timed out"
    ELSE "Problem with the communication. Verify the hardware. Error: "

\* comm_error_handler: every exception of the decorated send_cmd is raised
\* again as RuntimeError
comm_error_handler(cause, frames) ==
    Outcome("RuntimeError", 0, CommFailureMsg(cause), <<>>, frames)

\* SmaractBaseController.send_cmd over a transport that can fail: a failed
\* write has written nothing, a failed read follows the write of the frame
send_cmd_over(cmd, rd) ==
    IF rd.fail
    THEN comm_error_handler(rd.cause,
             IF rd.cause = "write failed" THEN <<>> ELSE <<<<":">> \o cmd \o <<"\n">>>>)
    ELSE send_cmd(cmd, rd.raw)

\* where an exception of a send was raised: in the transport's decorator,
\* at the raise of send_cmd, or by the indexing / int() of an answer
OriginOf(rd, r) ==
    IF rd.fail THEN "communication"
    ELSE IF r.exc = "RuntimeError" THEN "protocol"
    ELSE "parse"

ErrorOf(origin, r) == [origin |-> origin, exc |-> r.exc, msg |-> r.msg]

\* mode = CommunicationMode.SYNC; cmd = 'SCM%d' % mode, with another mode
SetCommunicationModeCmd_async == <<"S", "C", "M">> \o IntToStr(1)

\* mode = CommunicationMode.SYNC; cmd = 'SCM%d' % mode
SetCommunicationModeCmd == <<"S", "C", "M">> \o IntToStr(CommunicationMode_SYNC)

\* the sensor codes the device's channels report: Linear (1), Rotary (2) and
\* 3 ('ML'), a sensor type of SENSOR_CODE that is in neither class list
DeviceCodeSample == {1, 2, 3}

DeviceConfigs == UNION {[1..n -> DeviceCodeSample] : n \in 0..MaxChannels}

\* the answer to GNC, ":N<count>"
ChannelCountAnswer(n) == Answer(<<"N">> \o IntToStr(n))

\* the answer to GST<channel>, ":ST<channel>,<code>"
SensorTypeAnswer(ch, code) ==
    Answer(<<"S", "T">> \o IntToStr(ch) \o <<",">> \o IntToStr(code))

NotBuilt ==
    [pc |-> "new", constructed |-> FALSE, done |-> FALSE, codes |-> <<>>,
     scm |-> <<>>, n |-> 0, k |-> 0, gen |-> 0, oldlen |-> 0]

InitBuild ==
    /\ comm_type = CommType_Socket
    /\ axes = <<>>
    /\ ERROR_CODES = ERROR_CODES_TABLE
    /\ call = NoCall
    /\ sent = <<>>
    /\ result = NoResult
    /\ build = NotBuilt
    /\ first_frame = <<>>
    /\ errors = {}
    /\ observed = NoObservation
    /\ conn = ConnOpen
    /\ th = <<>>
    /\ inbuf = NoInput
    /\ wire = <<>>
    /\ device = NoDevice
    /\ _axes = <<>>

\* the frames of r are written: they follow those of the running call
Written(r) ==
    /\ sent' = sent \o r.sent
    /\ first_frame' = IF first_frame = <<>> /\ r.sent # <<>> THEN r.sent[1]
                      ELSE first_frame

\* the running call ends with the exception of r, raised at origin
Raised(origin, r) ==
    /\ result' = [exc |-> r.exc, code |-> r.code, msg |-> r.msg, ret |-> <<>>]
    /\ errors' = errors \cup {ErrorOf(origin, r)}
    /\ build' = [build EXCEPT !.pc = IF build.constructed THEN "ready" ELSE "failed",
                              !.done = FALSE]

\* SmaractMCSController.__init__: self.send_cmd('SCM%d' % mode), then
\* self._create_axes()
InitSendSCM ==
    /\ build.pc = "new"
    /\ \E rd \in Reads({ErrorAnswer(-1, 0), ErrorAnswer(-1, 157)}) :
           LET r == send_cmd_over(SetCommunicationModeCmd, rd)
           IN  /\ call' = [op |-> "__init__", axis |-> -1, args |-> <<>>, answer |-> rd.raw]
               /\ Written(r)
               /\ IF r.exc # "none"
                  THEN /\ Raised(OriginOf(rd, r), r)
                       /\ axes' = axes
                  ELSE /\ build' = [build EXCEPT !.pc = "clear", !.scm = rd.raw,
                                                 !.gen = build.gen + 1,
                                                 !.oldlen = Len(axes)]
                       /\ UNCHANGED <<axes, result, errors>>
    /\ observed' = NoObservation
    /\ UNCHANGED <<comm_type, ERROR_CODES, ioVars, devVars>>

\* _create_axes: while True: self.pop()
PopAxis ==
    /\ build.pc = "clear"
    /\ axes # <<>>
    /\ axes' = SubSeq(axes, 1, Len(axes) - 1)
    /\ observed' = NoObservation
    /\ UNCHANGED <<comm_type, ERROR_CODES, callVars, build, first_frame, errors, ioVars, devVars>>

\* the enumeration has gone through all n channels
Completed(n, k) == k = n

\* _create_axes: the pop of the empty list raised IndexError; range(self.nchannels)
ReadNChannels ==
    /\ build.pc = "clear"
    /\ axes = <<>>
    /\ \E codes \in DeviceConfigs :
       \E rd \in Reads({ChannelCountAnswer(Len(codes)), <<>>}) :
           LET r == send_cmd_over(<<"G", "N", "C">>, rd)
               digits == SubSeq(r.ret, 2, Len(r.ret))
           IN  /\ Written(r)
               /\ IF r.exc # "none"
                  THEN Raised(OriginOf(rd, r), r)
                  ELSE IF ~IsIntText(digits)
                  THEN Raised("parse", Outcome("ValueError", 0,
                                  "invalid literal for int()", <<>>, <<>>))
                  ELSE /\ build' = [build EXCEPT
                                      !.codes = codes, !.n = StrToInt(digits), !.k = 0,
                                      !.pc = IF Completed(StrToInt(digits), 0)
                                             THEN "ready" ELSE "channel",
                                      !.constructed = @ \/ Completed(StrToInt(digits), 0),
                                      !.done = Completed(StrToInt(digits), 0)]
                       /\ UNCHANGED <<result, errors>>
    /\ observed' = NoObservation
    /\ UNCHANGED <<comm_type, axes, ERROR_CODES, call, ioVars, devVars>>

\* _create_axes, one turn of the loop: GST<axis_nr>, the axis of the sensor
\* code's class is appended, or RuntimeError() is raised
CreateAxis ==
    /\ build.pc = "channel"
    /\ build.k < build.n
    /\ \E rd \in Reads({SensorTypeAnswer(build.k, build.codes[build.k + 1]),
                        ErrorAnswer(build.k, 129)}) :
           LET r == send_cmd_over(<<"G", "S", "T">> \o IntToStr(build.k), rd)
               sensor_code == StrToInt(RSplitLast(r.ret))
           IN  /\ Written(r)
               /\ IF r.exc # "none"
                  THEN /\ Raised(OriginOf(rd, r), r)
                       /\ axes' = axes
                  ELSE IF CommaAt(r.ret) = {} \/ ~IsIntText(RSplitLast(r.ret))
                  THEN /\ Raised("parse", Outcome("ValueError", 0,
                                     "invalid literal for int()", <<>>, <<>>))
                       /\ axes' = axes
                  ELSE IF AxisClass(sensor_code) = "none"
                  THEN /\ Raised("enumeration", Outcome("RuntimeError", 0, "", <<>>, <<>>))
                       /\ axes' = axes
                  ELSE /\ axes' = Append(axes, Axis(AxisClass(sensor_code), build.k,
                                                    build.gen))
                       /\ build' = [build EXCEPT
                                      !.k = build.k + 1,
                                      !.pc = IF Completed(build.n, build.k + 1)
                                             THEN "ready" ELSE "channel",
                                      !.constructed = @ \/ Completed(build.n, build.k + 1),
                                      !.done = Completed(build.n, build.k + 1)]
                       /\ UNCHANGED <<result, errors>>
    /\ observed' = NoObservation
    /\ UNCHANGED <<comm_type, ERROR_CODES, call, ioVars, devVars>>

\* a later call of _create_axes on the built controller
ReEnumerate ==
    /\ build.pc = "ready"
    /\ build.gen < MaxBuilds
    /\ call' = [op |-> "_create_axes", axis |-> -1, args |-> <<>>, answer |-> <<>>]
    /\ sent' = <<>>
    /\ result' = NoResult
    /\ build' = [build EXCEPT !.pc = "clear", !.done = FALSE, !.gen = build.gen + 1,
                              !.oldlen = Len(axes)]
    /\ observed' = NoObservation
    /\ UNCHANGED <<comm_type, axes, ERROR_CODES, first_frame, errors, ioVars, devVars>>

\* the construction failed and the caller constructs a controller again
Retry ==
    /\ build.pc = "failed"
    /\ build.gen < MaxBuilds
    /\ call' = NoCall
    /\ sent' = <<>>
    /\ result' = NoResult
    /\ axes' = <<>>
    /\ build' = [NotBuilt EXCEPT !.gen = build.gen]
    /\ observed' = NoObservation
    /\ UNCHANGED <<comm_type, ERROR_CODES, first_frame, errors, ioVars, devVars>>

\* SmaractMCSController.communication_mode: int(ans[-1]) of the answer to GCM
GetCommunicationMode ==
    /\ build.pc = "ready"
    /\ \E rd \in Reads({Answer(<<"C", "M", "0">>)}) :
           LET r == send_cmd_over(<<"G", "C", "M">>, rd)
           IN  /\ call' = [op |-> "communication_mode", axis |-> -1, args |-> <<>>,
                           answer |-> rd.raw]
               /\ sent' = r.sent
               /\ first_frame' = first_frame
               /\ result' = [exc |-> r.exc, code |-> r.code, msg |-> r.msg,
                             ret |-> IF r.exc = "none" THEN <<r.ret[Len(r.ret)]>> ELSE <<>>]
               /\ errors' = IF r.exc = "none" THEN errors
                            ELSE errors \cup {ErrorOf(OriginOf(rd, r), r)}
    /\ observed' = NoObservation
    /\ UNCHANGED <<comm_type, axes, ERROR_CODES, build, ioVars, devVars>>

\* an axis operation of the built controller: the status of one of its axes
AxisStatus ==
    /\ build.pc = "ready"
    /\ \E i \in 1..Len(axes) :
       \E rd \in Reads({StatusAnswer(axes[i].axis_nr, STOPPED)}) :
           LET r == send_cmd_over(<<"G", "S">> \o IntToStr(axes[i].axis_nr), rd)
           IN  /\ call' = [op |-> "status", axis |-> axes[i].axis_nr, args |-> <<>>,
                           answer |-> rd.raw]
               /\ sent' = r.sent
               /\ first_frame' = first_frame
               /\ result' = [exc |-> r.exc, code |-> r.code, msg |-> r.msg, ret |-> <<>>]
               /\ errors' = IF r.exc = "none" THEN errors
                            ELSE errors \cup {ErrorOf(OriginOf(rd, r), r)}
    /\ observed' = NoObservation
    /\ UNCHANGED <<comm_type, axes, ERROR_CODES, build, ioVars, devVars>>

\* _create_axes has changed the list and has not finished
HalfRebuilt ==
    \/ build.pc = "clear" /\ Len(axes) < build.oldlen
    \/ build.pc = "channel"

\* a second thread uses the built controller: it reads len(ctrl) and, when
\* there is an axis, sends GS through ctrl[0].  Nothing makes it wait.
Observe ==
    /\ build.constructed
    /\ observed = NoObservation
    /\ observed' = [len |-> Len(axes), rebuilding |-> HalfRebuilt,
                    frame |-> IF axes = <<>> THEN <<>>
                              ELSE <<":", "G", "S">> \o IntToStr(axes[1].axis_nr)
                                       \o <<"\n">>]
    /\ UNCHANGED <<comm_type, axes, ERROR_CODES, callVars, build, first_frame, errors,
                   ioVars, devVars>>

NextBuild ==
    \/ InitSendSCM
    \/ PopAxis
    \/ ReadNChannels
    \/ CreateAxis
    \/ ReEnumerate
    \/ Retry
    \/ GetCommunicationMode
    \/ AxisStatus
    \/ Observe

SpecBuild == InitBuild /\ [][NextBuild]_vars

---------------------------------------------------------------------------
(* communication.py, step by step: the construction of the transport and   *)
(* the flush, write and read of a send_cmd, for two threads that call      *)
(* send_cmd on the same controller.  The code takes no lock, so the steps  *)
(* of the two calls interleave freely.                                     *)

Threads == {1, 2}

\* thread t asks for the position of channel t-1
CmdOf(t) == <<"G", "P">> \o IntToStr(t - 1)

FrameOf(t) == <<":">> \o CmdOf(t) \o <<"\n">>

\* the device's answers to GP<ch>: the position, or an error code
AnswersTo(ch) == {Answer(<<"P">> \o IntToStr(ch) \o <<",", "7">>), ErrorAnswer(ch, 157)}

\* the sizes in which an answer on its way arrives: three bytes, or all of it
ChunkSizes(later) == {n \in {3, Len(later)} : 1 <= n /\ n <= Len(later)}

NotCalled ==
    [pc |-> "idle", raw |-> <<>>, failed |-> FALSE, exc |-> "none", code |-> 0,
     msg |-> "", cause |-> "", ret |-> <<>>, writes |-> 0, reads |-> 0,
     after_timeout |-> FALSE]

InitIO ==
    /\ comm_type \in {CommType_Serial, CommType_SerialTango, CommType_Socket}
    /\ axes = <<Axis("Linear", 0, 1), Axis("Linear", 1, 1)>>
    /\ ERROR_CODES = ERROR_CODES_TABLE
    /\ call = NoCall
    /\ sent = <<>>
    /\ result = NoResult
    /\ build = BuildReady
    /\ first_frame = <<>>
    /\ errors = {}
    /\ observed = NoObservation
    /\ conn = [state |-> "new", exc |-> "none", msg |-> "", cause |-> ""]
    /\ th = [t \in Threads |-> NotCalled]
    /\ inbuf = NoInput
    /\ wire = <<>>
    /\ device = NoDevice
    /\ _axes = <<>>

\* SocketCom.__init__: 'There are problem to connect to the smaract. Maybe
\* there is another client connected. Error: %s' % e
ConnectFailureMsg(cause) ==
    IF cause = "connection refused"
    THEN "There are problem to connect to the smaract. Maybe there is another client connected. Error: connection refused"
    ELSE "There are problem to connect to the smaract. Maybe there is another client connected. Error: "

\* SmaractCommunication.__init__ when the transport's constructor fails:
\* SerialCom(*args) and SerialTangoCom(*args) let the exception of Serial and
\* of PyTango.DeviceProxy through, SocketCom raises RuntimeError instead
ConstructorFailure(type, cause) ==
    IF type = CommType_Serial
    THEN [state |-> "failed", exc |-> "SerialException", msg |-> cause, cause |-> cause]
    ELSE IF type = CommType_SerialTango
    THEN [state |-> "failed", exc |-> "DevFailed", msg |-> cause, cause |-> cause]
    ELSE [state |-> "failed", exc |-> "RuntimeError", msg |-> ConnectFailureMsg(cause),
          cause |-> cause]

\* SmaractCommunication.__init__
Construct ==
    /\ conn.state = "new"
    /\ \/ conn' = ConnOpen
       \/ conn' = ConstructorFailure(comm_type, "connection refused")
    /\ UNCHANGED <<comm_type, axes, ERROR_CODES, callVars, buildVars, devVars, th, inbuf, wire>>

\* comm_error_handler, with the call made again after the failure
Failed_retry(rec, cause) ==
    [rec EXCEPT !.pc = "write", !.failed = TRUE, !.exc = "RuntimeError",
                !.msg = CommFailureMsg(cause), !.cause = cause]

\* comm_error_handler: the exception of the step ends the call as RuntimeError
Failed(rec, cause) ==
    [rec EXCEPT !.pc = "done", !.failed = TRUE, !.exc = "RuntimeError",
                !.msg = CommFailureMsg(cause), !.cause = cause]

\* thread t is inside a transport's send_cmd
Inside(t) == th[t].pc \in {"flush", "write", "read"}

\* a call of another thread has ended in a communication failure because
\* its answer did not arrive in time
TimedOutBefore(t) ==
    \E u \in Threads \ {t} :
        th[u].pc = "done" /\ th[u].failed /\ th[u].cause = "timed out"

\* a thread calls Controller.send_cmd: SmaractCommunication.send_cmd, then
\* the transport's send_cmd; only the serial transports flush first.
\* after_timeout notes whether the call begins after such a failure.
Begin(t) ==
    /\ conn.state = "open"
    /\ th[t].pc = "idle"
    /\ th' = [th EXCEPT ![t].pc = IF comm_type = CommType_Socket THEN "write" ELSE "flush",
                        ![t].after_timeout = TimedOutBefore(t)]
    /\ UNCHANGED <<comm_type, axes, ERROR_CODES, callVars, buildVars, devVars, conn, inbuf, wire>>

\* SerialCom: self.flush() waits until the output is written;
\* SerialTangoCom: DevSerFlush(2) discards the input that has arrived
Flush(t) ==
    /\ th[t].pc = "flush"
    /\ th' = [th EXCEPT ![t].pc = "write"]
    /\ inbuf' = IF comm_type = CommType_SerialTango THEN [inbuf EXCEPT !.ready = <<>>]
                ELSE inbuf
    /\ UNCHANGED <<comm_type, axes, ERROR_CODES, callVars, buildVars, devVars, conn, wire>>

\* self.write(cmd) / DevSerWriteString(cmd) / self.sendall(cmd): the frame
\* goes to the device, whose answer is on its way; or the write fails
Write(t) ==
    /\ th[t].pc = "write"
    /\ \/ \E a \in AnswersTo(t - 1) :
             /\ wire' = Append(wire, FrameOf(t))
             /\ inbuf' = [inbuf EXCEPT !.later = @ \o a]
             /\ th' = [th EXCEPT ![t].pc = "read", ![t].writes = @ + 1]
       \/ /\ th' = [th EXCEPT ![t] = Failed(@, "write failed")]
          /\ UNCHANGED <<inbuf, wire>>
    /\ UNCHANGED <<comm_type, axes, ERROR_CODES, callVars, buildVars, devVars, conn>>

\* bytes of the device arrive
Deliver ==
    /\ \E n \in ChunkSizes(inbuf.later) :
           inbuf' = [ready |-> inbuf.ready \o SubSeq(inbuf.later, 1, n),
                     later |-> SubSeq(inbuf.later, n + 1, Len(inbuf.later))]
    /\ UNCHANGED <<comm_type, axes, ERROR_CODES, callVars, buildVars, devVars, conn, th, wire>>

\* the positions of the line terminator in the bytes that have arrived
Newlines(bytes) == {i \in 1..Len(bytes) : bytes[i] = "\n"}

\* the read has returned raw: SmaractCommunication.send_cmd strips it and
\* SmaractBaseController.send_cmd looks for the error code
Received(rec, cmd, raw) ==
    LET r == send_cmd(cmd, raw)
    IN  [rec EXCEPT !.pc = "done", !.raw = raw, !.reads = @ + 1, !.exc = r.exc,
                    !.code = r.code, !.msg = r.msg, !.ret = r.ret]

\* SerialCom: self.readline(); SerialTangoCom: DevSerReadLine().  The line up
\* to the terminator, or at the timeout whatever has arrived
ReadLine(t) ==
    /\ th[t].pc = "read"
    /\ comm_type \in {CommType_Serial, CommType_SerialTango}
    /\ LET n == IF Newlines(inbuf.ready) = {} THEN Len(inbuf.ready)
                ELSE Min(Newlines(inbuf.ready))
       IN  /\ th' = [th EXCEPT ![t] = Received(@, CmdOf(t), SubSeq(inbuf.ready, 1, n))]
           /\ inbuf' = [inbuf EXCEPT !.ready = SubSeq(@, n + 1, Len(@))]
    /\ UNCHANGED <<comm_type, axes, ERROR_CODES, callVars, buildVars, devVars, conn, wire>>

\* SocketCom: self.recv(1024) returns the bytes that have arrived, or raises
\* socket.timeout when there are none
Recv(t) ==
    /\ th[t].pc = "read"
    /\ comm_type = CommType_Socket
    /\ IF inbuf.ready = <<>>
       THEN /\ th' = [th EXCEPT ![t] = Failed([@ EXCEPT !.reads = @ + 1], "timed out")]
            /\ inbuf' = inbuf
       ELSE /\ th' = [th EXCEPT ![t] = Received(@, CmdOf(t), inbuf.ready)]
            /\ inbuf' = [inbuf EXCEPT !.ready = <<>>]
    /\ UNCHANGED <<comm_type, axes, ERROR_CODES, callVars, buildVars, devVars, conn, wire>>

NextIO ==
    \/ Construct
    \/ \E t \in Threads : Begin(t)
    \/ \E t \in Threads : Flush(t)
    \/ \E t \in Threads : Write(t)
    \/ Deliver
    \/ \E t \in Threads : ReadLine(t)
    \/ \E t \in Threads : Recv(t)

SpecIO == InitIO /\ [][NextIO]_vars

---------------------------------------------------------------------------
(* The device end of the line.  In the two specifications below the answer *)
(* to a frame is no longer an input of the call: the device parses the     *)
(* frame, changes its registers and reports them.  SpecSettings follows    *)
(* the settings written and read back (closed-loop speed and acceleration, *)
(* travel limits, table entries); SpecMotion follows the motion commands   *)
(* (stop, find reference mark, calibrate) and the commands of the Sardana  *)
(* adapter (AddDevice, AbortOne, SendToCtrl).                              *)

\* s.split(sep): the fields between the separators, empty fields kept
RECURSIVE Split(_, _)
Split(s, sep) ==
    LET at == {i \in 1..Len(s) : s[i] = sep}
    IN  IF at = {} THEN <<s>>
        ELSE <<SubSeq(s, 1, Min(at) - 1)>> \o Split(SubSeq(s, Min(at) + 1, Len(s)), sep)

\* s.strip(): the blanks at both ends removed
RECURSIVE str_strip(_)
str_strip(s) ==
    IF Len(s) > 0 /\ s[1] = " " THEN str_strip(Tail(s))
    ELSE IF Len(s) > 0 /\ s[Len(s)] = " " THEN str_strip(SubSeq(s, 1, Len(s) - 1))
    ELSE s

UpperChar ==
    <<"A", "B", "C", "D", "E", "F", "G", "H", "I", "J", "K", "L", "M",
      "N", "O", "P", "Q", "R", "S", "T", "U", "V", "W", "X", "Y", "Z">>

LowerChar ==
    <<"a", "b", "c", "d", "e", "f", "g", "h", "i", "j", "k", "l", "m",
      "n", "o", "p", "q", "r", "s", "t", "u", "v", "w", "x", "y", "z">>

\* s.lower()
str_lower(s) ==
    [i \in 1..Len(s) |->
        IF \E k \in 1..Len(UpperChar) : UpperChar[k] = s[i]
        THEN LowerChar[CHOOSE k \in 1..Len(UpperChar) : UpperChar[k] = s[i]]
        ELSE s[i]]

\* the last n elements of a list: l[-n:]
LastN(l, n) == SubSeq(l, Max({1, Len(l) - n + 1}), Len(l))

\* the registers of a device of n channels after power-on
DeviceAtRest(n) ==
    [sensors |-> 0,
     state |-> [c \in 0..(n - 1) |-> STOPPED],
     known |-> [c \in 0..(n - 1) |-> 0],
     vel |-> [c \in 0..(n - 1) |-> 0],
     acc |-> [c \in 0..(n - 1) |-> 0],
     limits |-> [c \in 0..(n - 1) |-> <<0, 0, 0, 0>>],
     ste |-> <<>>]

\* the mnemonic and the numbers of a frame: the channel is the first number,
\* the parameters follow it
ParseFields(mnemonic, fields) ==
    [m |-> mnemonic,
     ch |-> IF fields = <<>> THEN -1 ELSE StrToInt(fields[1]),
     pars |-> [i \in 1..(Len(fields) - 1) |-> StrToInt(fields[i + 1])]]

\* where the first number of a text begins (past its end without one)
FirstNumberAt(body) ==
    Min({i \in 1..Len(body) : IsDigit(body[i]) \/ body[i] = "-"} \cup {Len(body) + 1})

\* the text before position k is the mnemonic, the rest the numbers
ParseAt(body, k) ==
    ParseFields(SubSeq(body, 1, k - 1),
                IF k > Len(body) THEN <<>> ELSE Split(SubSeq(body, k, Len(body)), ","))

\* a frame as the device reads it, between its ':' and its newline
ParseFrame(frame) ==
    ParseAt(SubSeq(frame, 2, Len(frame) - 1),
            FirstNumberAt(SubSeq(frame, 2, Len(frame) - 1)))

\* the device's report of a register: ":<mnemonic><channel>,<value>,..."
Report(mnemonic, ch, values) == Answer(mnemonic \o IntToStr(ch) \o JoinPars(values))

\* a setting stored and acknowledged
Stored(d, ch) == [dev |-> d, raw |-> ErrorAnswer(ch, 0)]

\* a query answered, the registers as they were
Answered(d, raw) == [dev |-> d, raw |-> raw]

\* the table entry last written, 0 for any other
TableEntry(d, table, row) ==
    IF d.ste # <<>> /\ d.ste[1] = table /\ d.ste[2] = row THEN d.ste[3] ELSE 0

\* the device takes the frame f.  Settings are stored and acknowledged,
\* queries are answered from the registers, a motion command puts the
\* channel in the state of that motion, a stop ends a motion and leaves a
\* locked channel locked.
DeviceTakes(d, f) ==
    IF f.m = <<"S", "S", "E">>
    THEN [dev |-> [d EXCEPT !.sensors = f.ch], raw |-> ErrorAnswer(-1, 0)]
    ELSE IF f.ch \notin DOMAIN d.state THEN Answered(d, ErrorAnswer(-1, 1))
    ELSE IF f.m = <<"S", "C", "L", "S">>
    THEN Stored([d EXCEPT !.vel[f.ch] = f.pars[1]], f.ch)
    ELSE IF f.m = <<"G", "C", "L", "S">>
    THEN Answered(d, Report(<<"C", "L", "S">>, f.ch, <<d.vel[f.ch]>>))
    ELSE IF f.m = <<"S", "C", "L", "A">>
    THEN Stored([d EXCEPT !.acc[f.ch] = f.pars[1]], f.ch)
    ELSE IF f.m = <<"G", "C", "L", "A">>
    THEN Answered(d, Report(<<"C", "L", "A">>, f.ch, <<d.acc[f.ch]>>))
    ELSE IF f.m = <<"S", "A", "L">> THEN Stored([d EXCEPT !.limits[f.ch] = f.pars], f.ch)
    ELSE IF f.m = <<"G", "A", "L">>
    THEN Answered(d, Report(<<"A", "L">>, f.ch, d.limits[f.ch]))
    ELSE IF f.m = <<"S", "T", "E">> THEN Stored([d EXCEPT !.ste = f.pars], f.ch)
    ELSE IF f.m = <<"G", "T", "E">>
    THEN Answered(d, Report(<<"T", "E">>, f.ch,
                            <<f.pars[1], f.pars[2], TableEntry(d, f.pars[1], f.pars[2])>>))
    ELSE IF f.m = <<"S">>
    THEN Stored([d EXCEPT !.state[f.ch] = IF @ = LOCKED THEN LOCKED ELSE STOPPED], f.ch)
    ELSE IF f.m = <<"F", "R", "M">> THEN Stored([d EXCEPT !.state[f.ch] = HOMING], f.ch)
    ELSE IF f.m = <<"C", "S">> THEN Stored([d EXCEPT !.state[f.ch] = CALIBRATING], f.ch)
    ELSE IF f.m = <<"G", "P", "P", "K">>
    THEN Answered(d, Report(<<"P", "P", "K">>, f.ch, <<d.known[f.ch]>>))
    ELSE IF f.m = <<"G", "S">> THEN Answered(d, StatusAnswer(f.ch, d.state[f.ch]))
    ELSE Stored(d, f.ch)

\* the registers after a frame and the answer the device writes to it
DeviceStep(d, frame) == DeviceTakes(d, ParseFrame(frame))

\* the device on its own: a search for the reference mark ends with the
\* physical position known, a calibration ends
DeviceEnds(d) ==
    [d EXCEPT !.state = [c \in DOMAIN d.state |->
                            IF d.state[c] \in {HOMING, CALIBRATING} THEN STOPPED
                            ELSE d.state[c]],
              !.known = [c \in DOMAIN d.known |->
                            IF d.state[c] = HOMING THEN 1 ELSE d.known[c]]]

---------------------------------------------------------------------------
(* controller.py, axis.py: the settings *)

\* SmaractMCSController.sensor_enabled setter: 'SSE%d' % enabled
set_sensor_enabled(enabled, raw) ==
    Command(send_cmd(<<"S", "S", "E">> \o IntToStr(enabled), raw))

\* float(ans.split(',')[1]); ret is the number as a text
SecondFieldAsNumber(r) ==
    IF r.exc # "none" THEN r
    ELSE IF CommaAt(r.ret) = {}
    THEN Outcome("IndexError", 0, "list index out of range", <<>>, r.sent)
    ELSE IF ~IsIntText(SplitSecond(r.ret))
    THEN Outcome("ValueError", 0, "could not convert string to float", <<>>, r.sent)
    ELSE [r EXCEPT !.ret = IntToStr(StrToInt(SplitSecond(r.ret)))]

closed_loop_acc(axis_nr, raw) ==
    SecondFieldAsNumber(_send_cmd(<<"G", "C", "L", "A">>, axis_nr, <<>>, raw))

\* the speed read from the acceleration register
closed_loop_vel_of_acc(axis_nr, raw) ==
    SecondFieldAsNumber(_send_cmd(<<"G", "C", "L", "A">>, axis_nr, <<>>, raw))

closed_loop_vel(axis_nr, raw) ==
    SecondFieldAsNumber(_send_cmd(<<"G", "C", "L", "S">>, axis_nr, <<>>, raw))

\* code carries the number returned
NumberReturned(r) == IF r.exc # "none" THEN r ELSE [r EXCEPT !.code = StrToInt(r.ret)]

\* int(ans.split(',')[1]) of the answer to GPPK
physical_position_known(axis_nr, raw) ==
    NumberReturned(SecondFieldAsNumber(_send_cmd(<<"G", "P", "P", "K">>, axis_nr, <<>>, raw)))

\* values = [float(x) for x in fields]; [values[1] * TURN + values[0],
\* values[3] * TURN + values[2]]; ret is <<min, max>>
LimitsOf(r, fields) ==
    IF \E i \in 1..Len(fields) : ~IsIntText(fields[i])
    THEN Outcome("ValueError", 0, "could not convert string to float", <<>>, r.sent)
    ELSE IF Len(fields) < 4
    THEN Outcome("IndexError", 0, "list index out of range", <<>>, r.sent)
    ELSE [r EXCEPT !.ret = <<(StrToInt(fields[2]) * TURN) + StrToInt(fields[1]),
                             (StrToInt(fields[4]) * TURN) + StrToInt(fields[3])>>]

\* ans.split(',')[-4:] of the answer to GAL
LimitsAnswered(r) ==
    IF r.exc # "none" THEN r ELSE LimitsOf(r, LastN(Split(r.ret, ","), 4))

\* SmaractMCSAngularAxis.position_limits getter
position_limits(axis_nr, raw) ==
    LimitsAnswered(_send_cmd(<<"G", "A", "L">>, axis_nr, <<>>, raw))

\* values.append(angle); values.append(revolutions) for each limit
RECURSIVE AngleRevs(_)
AngleRevs(limits) ==
    IF Len(limits) = 0 THEN <<>>
    ELSE _angle_rev(Head(limits)) \o AngleRevs(Tail(limits))

\* SmaractMCSAngularAxis.position_limits setter
set_position_limits(axis_nr, limits, raw) ==
    IF ~limits.list
    THEN Outcome("ValueError", 0, "The value should be a list/tuple read the help.",
                 <<>>, <<>>)
    ELSE Command(_send_cmd(<<"S", "A", "L">>, axis_nr, AngleRevs(limits.v), raw))

---------------------------------------------------------------------------
(* A method called on the device *)

\* the method name of an axis, called with args, when raw is the answer read
Method(name, axis_nr, args, raw) ==
    CASE name = "stop" -> stop(axis_nr, raw)
      [] name = "find_reference_mark" ->
            find_reference_mark(axis_nr, args[1], args[2], args[3], raw)
      [] name = "calibrate_sensor" -> calibrate_sensor(axis_nr, raw)
      [] name = "physical_position_known" -> physical_position_known(axis_nr, raw)
      [] name = "set_sensor_enabled" -> set_sensor_enabled(args, raw)
      [] name = "set_closed_loop_vel" -> set_closed_loop_vel(axis_nr, args, raw)
      [] name = "closed_loop_vel" -> closed_loop_vel(axis_nr, raw)
      [] name = "set_closed_loop_acc" -> set_closed_loop_acc(axis_nr, args, raw)
      [] name = "closed_loop_acc" -> closed_loop_acc(axis_nr, raw)
      [] name = "set_position_limits" -> set_position_limits(axis_nr, args, raw)
      [] name = "position_limits" -> position_limits(axis_nr, raw)
      [] name = "set_table_entry" ->
            set_table_entry(axis_nr, args[1], args[2], args[3], raw)
      [] name = "get_table_entry" -> get_table_entry(axis_nr, args[1], args[2], raw)

\* the device takes the frame a method wrote, if it wrote one
Exchange(d, frames) ==
    IF frames = <<>> THEN [dev |-> d, raw |-> <<>>] ELSE DeviceStep(d, frames[1])

\* how the method ends on the answer of the exchange x, and the device after it
Taken(name, axis_nr, args, x) ==
    [r |-> Method(name, axis_nr, args, x.raw), dev |-> x.dev]

\* a method that sends at most one command, called on the device d: the frame
\* it writes does not depend on the answer, the device answers that frame
OnDevice(d, name, axis_nr, args) ==
    Taken(name, axis_nr, args, Exchange(d, Method(name, axis_nr, args, <<>>).sent))

\* a call that ended without the device
Offline(d, r) == [r |-> r, dev |-> d]

---------------------------------------------------------------------------
(* axis.py: SmaractSDCAxis.max_closed_loop_frequency *)

RECURSIVE SetRows(_, _, _, _, _)
RECURSIVE SetRowsNext(_, _, _, _, _)

\* for row, value in enumerate(values): self.set_table_entry(TableIndex.MF,
\* row, value), from the given row on; frames are those written so far
SetRows(d, axis_nr, values, row, frames) ==
    IF row >= Len(values) THEN Offline(d, Outcome("none", 0, "", <<>>, frames))
    ELSE SetRowsNext(axis_nr, values, row, frames,
                     OnDevice(d, "set_table_entry", axis_nr,
                              <<TableIndex_MF, row, values[row + 1]>>))

\* the first exception ends the loop
SetRowsNext(axis_nr, values, row, frames, x) ==
    IF x.r.exc # "none" THEN [x EXCEPT !.r.sent = frames \o x.r.sent]
    ELSE SetRows(x.dev, axis_nr, values, row + 1, frames \o x.r.sent)

\* the setter
set_max_closed_loop_frequency(d, axis_nr, values) ==
    IF ~values.list
    THEN Offline(d, Outcome("ValueError", 0,
                            "The value should be a list/tuple read the help.", <<>>, <<>>))
    ELSE IF Len(values.v) = 2
    THEN OnDevice(d, "set_table_entry", axis_nr, <<0, values.v[1], values.v[2]>>)
    ELSE IF Len(values.v) = 8 THEN SetRows(d, axis_nr, values.v, 0, <<>>)
    ELSE Offline(d, Outcome("ValueError", 0, "The value is not correct. Read the help",
                            <<>>, <<>>))

---------------------------------------------------------------------------
(* SpecSettings: settings written to the device and read back *)

AccelerationSettings == {-1, 0, MAX_ACCELERATION, MAX_ACCELERATION + 1}

SensorModes == {0, 1}

\* the limits a travel range is set with
Limits == {-TURN, -1, 0, TURN + 1}

LimitValues == {Scalar(0)} \cup {List(<<lo, hi>>) : lo \in Limits, hi \in Limits}

\* [row, value], eight values, and lists of other lengths
FrequencyTables ==
    {Scalar(5), List(<<5>>), List(<<0, 5, 7>>)}
        \cup {List(<<row, value>>) : row \in Rows, value \in TableValues}
        \cup {List([i \in 1..8 |-> value + i]) : value \in TableValues}

InitSettings ==
    /\ comm_type = CommType_Socket
    /\ axes \in {<<Axis("SDC", 0, 1)>>, <<Axis("Linear", 0, 1), Axis("Angular", 1, 1)>>}
    /\ ERROR_CODES = ERROR_CODES_TABLE
    /\ call = NoCall
    /\ sent = <<>>
    /\ result = NoResult
    /\ build = BuildReady
    /\ first_frame = <<>>
    /\ errors = {}
    /\ observed = NoObservation
    /\ conn = ConnOpen
    /\ th = <<>>
    /\ inbuf = NoInput
    /\ wire = <<>>
    /\ device = DeviceAtRest(Len(axes))
    /\ _axes = <<>>

\* the call op(args) on axis axis_nr made on the device: x.r is how it ended,
\* x.dev the device after it
DoOnDevice(op, axis_nr, args, x) ==
    /\ call' = [op |-> op, axis |-> axis_nr, args |-> args, answer |-> <<>>]
    /\ sent' = x.r.sent
    /\ result' = [exc |-> x.r.exc, code |-> x.r.code, msg |-> x.r.msg, ret |-> x.r.ret]
    /\ device' = x.dev
    /\ UNCHANGED <<comm_type, axes, ERROR_CODES, buildVars, ioVars>>

\* the method name of axis axis_nr is called with args
CallOnDevice(name, axis_nr, args) ==
    /\ DoOnDevice(name, axis_nr, args, OnDevice(device, name, axis_nr, args))
    /\ UNCHANGED _axes

SetSensorEnabled ==
    /\ Idle
    /\ IsMCS
    /\ \E enabled \in SensorModes : CallOnDevice("set_sensor_enabled", -1, enabled)

SetClosedLoopVel ==
    /\ Idle
    /\ \E ch \in AxesOf(MCSAxis), velocity \in Velocities :
          CallOnDevice("set_closed_loop_vel", ch, velocity)

GetClosedLoopVel ==
    /\ Idle
    /\ \E ch \in AxesOf(MCSAxis) : CallOnDevice("closed_loop_vel", ch, <<>>)

SetClosedLoopAcc ==
    /\ Idle
    /\ \E ch \in AxesOf(MCSAxis), acceleration \in AccelerationSettings :
          CallOnDevice("set_closed_loop_acc", ch, acceleration)

GetClosedLoopAcc ==
    /\ Idle
    /\ \E ch \in AxesOf(MCSAxis) : CallOnDevice("closed_loop_acc", ch, <<>>)

SetPositionLimits ==
    /\ Idle
    /\ \E ch \in AxesOf({"Angular"}), limits \in LimitValues :
          CallOnDevice("set_position_limits", ch, limits)

GetPositionLimits ==
    /\ Idle
    /\ \E ch \in AxesOf({"Angular"}) : CallOnDevice("position_limits", ch, <<>>)

SetMaxClosedLoopFrequency ==
    /\ Idle
    /\ \E ch \in AxesOf({"SDC"}), values \in FrequencyTables :
          /\ DoOnDevice("set_max_closed_loop_frequency", ch, values,
                        set_max_closed_loop_frequency(device, ch, values))
          /\ UNCHANGED _axes

GetTableEntry ==
    /\ Idle
    /\ \E ch \in AxesOf({"SDC"}), table \in Tables, row \in Rows :
          CallOnDevice("get_table_entry", ch, <<table, row>>)

NextSettings ==
    \/ SetSensorEnabled
    \/ SetClosedLoopVel
    \/ GetClosedLoopVel
    \/ SetClosedLoopAcc
    \/ GetClosedLoopAcc
    \/ SetPositionLimits
    \/ GetPositionLimits
    \/ SetMaxClosedLoopFrequency
    \/ GetTableEntry
    \/ Return

SpecSettings == InitSettings /\ [][NextSettings]_vars

---------------------------------------------------------------------------
(* SmaractMCSCtrl.py: the commands of the Sardana adapter.  An operator    *)
(* gives how the call ended (r; msg carries the text returned) and the     *)
(* device after it (dev).                                                  *)

SendToCtrl_HOMING == <<"h", "o", "m", "i", "n", "g">>

SendToCtrl_CALIBRATION == <<"c", "a", "l", "i", "b", "r", "a", "t", "i", "o", "n">>

\* self._axes[axis]['motor'] is there: axis is a key and AddDevice got to the motor
HasMotor(ax, axis) == axis \in DOMAIN ax /\ ax[axis].motor # -1

\* the channel of the motor of an axis: self._axes[axis]['motor']._axis_nr
MotorOf(ax, axis) == axes[ax[axis].motor + 1].axis_nr

\* AddDevice: how it ends and self._axes after it; the entry is made before
\* the motor is looked up in the controller
AddDevice(ax, axis, n) ==
    IF axis <= 0
    THEN [r |-> Outcome("ValueError", 0, "Axis MUST be greater than 0.", <<>>, <<>>),
          ax |-> ax]
    ELSE IF axis - 1 >= n
    THEN [r |-> Outcome("IndexError", 0, "list index out of range", <<>>, <<>>),
          ax |-> (axis :> [motor |-> -1]) @@ ax]
    ELSE [r |-> Outcome("none", 0, "", <<>>, <<>>),
          ax |-> (axis :> [motor |-> axis - 1]) @@ ax]

\* AbortOne: self._axes[axis]['motor'].stop()
AbortOne(d, ax, axis) ==
    IF ~HasMotor(ax, axis) THEN Offline(d, Outcome("KeyError", 0, "", <<>>, <<>>))
    ELSE OnDevice(d, "stop", MotorOf(ax, axis), <<>>)

\* find_reference_mark(direction, 0, 1) in a try block: with a direction that
\* int() refused "%d" raises and nothing is written, and what it raises is logged
SendToCtrl_search(d, axis_nr, direction) ==
    IF IsIntText(direction)
    THEN OnDevice(d, "find_reference_mark", axis_nr, <<StrToInt(direction), 0, 1>>)
    ELSE Offline(d, Outcome("none", 0, "", <<>>, <<>>))

\* time.sleep(0.3): the search may end meanwhile
SendToCtrl_sleep(x, ends) == IF ends THEN [x EXCEPT !.dev = DeviceEnds(x.dev)] ELSE x

\* the text returned after a search that wrote frm_sent, known being the
\* outcome of physical_position_known
SendToCtrl_success(axis, frm_sent, known) ==
    IF known.r.exc # "none" THEN [known EXCEPT !.r.sent = frm_sent \o known.r.sent]
    ELSE [r |-> Outcome("none", axis,
                        IF known.r.code # 0
                        THEN "Homing axis %s has finished. Proceed to setup the Smaract limits (if necessary)"
                        ELSE "ERROR: No physical position known.",
                        <<>>, frm_sent \o known.r.sent),
          dev |-> known.dev]

\* success = self._axes[axis]['motor'].physical_position_known
SendToCtrl_poll(axis, axis_nr, frm) ==
    SendToCtrl_success(axis, frm.r.sent,
                       OnDevice(frm.dev, "physical_position_known", axis_nr, <<>>))

\* SendToCtrl, mode homing.  ends: the search ends during the sleep.
SendToCtrl_homing(d, ax, args, ends) ==
    IF Len(args) # 2
    THEN Offline(d, Outcome("UnboundLocalError", 0,
                            "local variable 'axis' referenced before assignment",
                            <<>>, <<>>))
    ELSE IF ~IsIntText(args[1])
    THEN Offline(d, Outcome("KeyError", 0, "", <<>>, <<>>))
    ELSE IF ~HasMotor(ax, StrToInt(args[1]))
    THEN Offline(d, Outcome("KeyError", 0, "", <<>>, <<>>))
    ELSE SendToCtrl_poll(StrToInt(args[1]), MotorOf(ax, StrToInt(args[1])),
                         SendToCtrl_sleep(SendToCtrl_search(d, MotorOf(ax, StrToInt(args[1])),
                                                            args[2]),
                                          ends))

\* SendToCtrl, mode calibration: calibrate_sensor is looked up on the motor
\* and not called
SendToCtrl_calibration(d, ax, args) ==
    IF Len(args) # 1
    THEN Offline(d, Outcome("UnboundLocalError", 0,
                            "local variable 'axis' referenced before assignment",
                            <<>>, <<>>))
    ELSE Offline(d, Outcome("none", 0, "Calibration finished.", <<>>, <<>>))

\* mode = cmd.split(' ')[0].lower(); args = cmd.strip().split(' ')[1:]
SendToCtrl(d, ax, cmd, ends) ==
    IF str_lower(Split(cmd, " ")[1]) = SendToCtrl_HOMING
    THEN SendToCtrl_homing(d, ax, Tail(Split(str_strip(cmd), " ")), ends)
    ELSE IF str_lower(Split(cmd, " ")[1]) = SendToCtrl_CALIBRATION
    THEN SendToCtrl_calibration(d, ax, Tail(Split(str_strip(cmd), " ")))
    ELSE Offline(d, Outcome("none", 0, "ERROR: Invalid command requested.", <<>>, <<>>))

---------------------------------------------------------------------------
(* SpecMotion: the motion commands of the axes and of the adapter *)

Directions == {0, 1}

AutoZero == {0, 1}

AdapterAxes == 0..(MaxChannels + 1)

Blank == <<" ">>

\* the texts handed to SendToCtrl
AdapterCommands ==
    {SendToCtrl_HOMING \o Blank \o <<"1">> \o Blank \o <<"0">>,
     SendToCtrl_HOMING \o Blank \o <<"2">> \o Blank \o <<"1">>,
     SendToCtrl_HOMING \o Blank \o <<"1">>,
     SendToCtrl_HOMING \o Blank \o <<"x">> \o Blank \o <<"0">>,
     SendToCtrl_HOMING \o Blank \o <<"1">> \o Blank \o <<"x">>,
     SendToCtrl_CALIBRATION \o Blank \o <<"1">>,
     SendToCtrl_CALIBRATION \o Blank \o <<"2">>,
     <<"C">> \o Tail(SendToCtrl_CALIBRATION) \o Blank \o <<"1">>,
     SendToCtrl_CALIBRATION,
     SendToCtrl_CALIBRATION \o Blank \o <<"x">>,
     SendToCtrl_CALIBRATION \o Blank \o <<"1">> \o Blank \o <<"2">>,
     <<"r", "e", "s", "e", "t">>,
     <<>>}

InitMotion ==
    /\ comm_type = CommType_Socket
    /\ axes = <<Axis("Linear", 0, 1), Axis("Angular", 1, 1)>>
    /\ ERROR_CODES = ERROR_CODES_TABLE
    /\ call = NoCall
    /\ sent = <<>>
    /\ result = NoResult
    /\ build = BuildReady
    /\ first_frame = <<>>
    /\ errors = {}
    /\ observed = NoObservation
    /\ conn = ConnOpen
    /\ th = <<>>
    /\ inbuf = NoInput
    /\ wire = <<>>
    /\ \E s \in [0..(Len(axes) - 1) -> {STOPPED, LOCKED}] :
          device = [DeviceAtRest(Len(axes)) EXCEPT !.state = s]
    /\ _axes = <<>>

CallAddDevice ==
    /\ Idle
    /\ \E axis \in AdapterAxes :
          /\ DoOnDevice("AddDevice", axis, <<>>,
                        Offline(device, AddDevice(_axes, axis, Len(axes)).r))
          /\ _axes' = AddDevice(_axes, axis, Len(axes)).ax

CallAbortOne ==
    /\ Idle
    /\ \E axis \in DOMAIN _axes :
          /\ HasMotor(_axes, axis)
          /\ DoOnDevice("AbortOne", axis, <<>>, AbortOne(device, _axes, axis))
          /\ UNCHANGED _axes

CallStop ==
    /\ Idle
    /\ \E ch \in AxesOf(AnyAxis) : CallOnDevice("stop", ch, <<>>)

CallFindReferenceMark ==
    /\ Idle
    /\ \E ch \in AxesOf(MCSAxis), direction \in Directions, hold_time \in HoldTimes,
          auto_zero \in AutoZero :
          CallOnDevice("find_reference_mark", ch, <<direction, hold_time, auto_zero>>)

CallCalibrateSensor ==
    /\ Idle
    /\ \E ch \in AxesOf(MCSAxis) : CallOnDevice("calibrate_sensor", ch, <<>>)

CallPhysicalPositionKnown ==
    /\ Idle
    /\ \E ch \in AxesOf(MCSAxis) : CallOnDevice("physical_position_known", ch, <<>>)

CallSendToCtrl ==
    /\ Idle
    /\ \E cmd \in AdapterCommands, ends \in BOOLEAN :
          /\ DoOnDevice("SendToCtrl", -1, cmd, SendToCtrl(device, _axes, cmd, ends))
          /\ UNCHANGED _axes

\* a search or a calibration ends while no call is running
DeviceProgress ==
    /\ Idle
    /\ device' = DeviceEnds(device)
    /\ device' # device
    /\ UNCHANGED <<comm_type, axes, ERROR_CODES, callVars, buildVars, ioVars, _axes>>

NextMotion ==
    \/ CallAddDevice
    \/ CallAbortOne
    \/ CallStop
    \/ CallFindReferenceMark
    \/ CallCalibrateSensor
    \/ CallPhysicalPositionKnown
    \/ CallSendToCtrl
    \/ DeviceProgress
    \/ Return

SpecMotion == InitMotion /\ [][NextMotion]_vars

---------------------------------------------------------------------------
(* Properties *)

\* the frame of a command: ':' mnemonic channel {',' parameter} '\n'
Frame(mnemonic, ch, pars) ==
    <<":">> \o mnemonic \o IntToStr(ch) \o JoinPars(pars) \o <<"\n">>

\* the decoded answer of the call
Payload == Strip(call.answer)

\* C1: for every position p with -1000000000 <= p <= 1000000000 the
\* decomposition _angle_rev(p) = (angle, revolutions) satisfies
\* revolutions * 360000000 + angle = p and 0 <= angle < 360000000.
C1_AngleRevRoundTrip ==
    (call.op = "_angle_rev"
        /\ -1000000000 <= call.args[1] /\ call.args[1] <= 1000000000)
    => /\ result.ret[2] * 360000000 + result.ret[1] = call.args[1]
       /\ 0 <= result.ret[1]
       /\ result.ret[1] < 360000000

\* C2: move(p, h) on an Angular axis of channel c, with 0 <= h <= 60000 and
\* the decomposed angle and revolution in range, writes exactly one frame,
\* MAA for channel c with the parameters (p mod 360000000,
\* floor(p / 360000000), h).
C2_AngularMoveFrame ==
    (call.op = "angular_move"
        /\ -1000000000 <= call.args[1] /\ call.args[1] <= 1000000000
        /\ 0 <= call.args[2] /\ call.args[2] <= 60000)
    => sent = <<Frame(<<"M", "A", "A">>, call.axis,
                      <<call.args[1] % 360000000, call.args[1] \div 360000000,
                        call.args[2]>>)>>

\* the answer is error-flagged: first character 'E', second not 'S'
Flagged(p) == Len(p) >= 2 /\ p[1] = "E" /\ p[2] # "S"

\* the answer is error-flagged and its trailing integer code is not 0
NonZeroCode(p) ==
    /\ Flagged(p)
    /\ CommaAt(p) # {}
    /\ IsIntText(RSplitLast(p))
    /\ StrToInt(RSplitLast(p)) # 0

\* C3: Controller.send_cmd raises a protocol error if and only if the decoded
\* answer is error-flagged and its trailing code is not 0; in every other
\* case it returns the decoded payload unchanged.
C3_ProtocolErrorIff ==
    call.op = "send_cmd"
    => IF NonZeroCode(Payload)
       THEN result.exc = "RuntimeError"
       ELSE result.exc = "none" /\ result.ret = Payload

\* C4: a protocol error carries the integer code parsed from the answer and
\* the message of that code in the fixed ERROR_CODES table (157: "Permission
\* Denied Error"); a non-zero code that is not in the table raises with the
\* generic message; the table is never modified.
C4_ProtocolErrorCodeAndMessage ==
    /\ ERROR_CODES = ERROR_CODES_TABLE
    /\ result.exc = "RuntimeError"
       => /\ NonZeroCode(Payload)
          /\ result.code = StrToInt(RSplitLast(Payload))
          /\ result.code = 157 => result.msg = "Permission Denied Error"
          /\ result.code \in DOMAIN ERROR_CODES_TABLE
             => result.msg = ERROR_CODES_TABLE[result.code]
          /\ result.code \notin DOMAIN ERROR_CODES_TABLE
             => result.msg = "There is not message for this error on the documentation"
    /\ (call.op = "send_cmd" /\ NonZeroCode(Payload)
            /\ StrToInt(RSplitLast(Payload)) \notin DOMAIN ERROR_CODES_TABLE)
       => result.exc = "RuntimeError"

\* C4 witness: send_cmd raised the protocol error of code 157
C4_Witness ==
    /\ call.op = "send_cmd"
    /\ result.exc = "RuntimeError"
    /\ result.code = 157
    /\ result.msg = "Permission Denied Error"

\* the answer is a status answer "S<channel>,<code>"
IsStatusPayload(p) ==
    /\ Len(p) >= 1
    /\ p[1] = "S"
    /\ CommaAt(p) # {}
    /\ IsIntText(SplitSecond(p))

\* the raw status code of such an answer
RawCode == StrToInt(SplitSecond(Payload))

\* C5: reading an axis status never fails because of the status code: raw
\* code 4 maps to Targeting, raw code 9 to Locked, and a raw code that is in
\* no status table (8, 255) yields the fault state instead of an exception,
\* in Axis.status and in the adapter's StateOne.
C5_StatusNeverFails ==
    (call.op \in {"status", "StateOne"} /\ IsStatusPayload(Payload))
    => /\ result.exc = "none"
       /\ (call.op = "status" /\ RawCode = 4) => result.msg = "Targeting"
       /\ (call.op = "status" /\ RawCode = 9) => result.msg = "Locked"
       /\ (call.op = "StateOne" /\ RawCode = 4) => result.msg = "Moving"
       /\ (call.op = "StateOne" /\ RawCode = 9) => result.msg = "Disable"
       /\ (call.op = "StateOne" /\ RawCode \notin {0, 1, 2, 3, 4, 5, 6, 7, 9})
          => result.msg = "Fault"

Outside(x, lo, hi) == x < lo \/ x > hi

\* a range-checked argument of the call is out of its range of the manual
CheckedArgOutOfRange ==
    LET a == call.args
    IN  \/ /\ call.op = "move_angle_absolute"
           /\ \/ Outside(a[1], 0, 359999999)
              \/ Outside(a[2], -32768, 32767)
              \/ Outside(a[3], 0, 60000)
        \/ /\ call.op = "move_angle_relative"
           /\ \/ Outside(a[1], -359999999, 359999999)
              \/ Outside(a[2], -32768, 32767)
              \/ Outside(a[3], 0, 60000)
        \/ /\ call.op \in {"angular_move", "linear_move", "move_position_absolute",
                           "move_position_relative"}
           /\ Outside(a[2], 0, 60000)
        \/ /\ call.op = "move_step"
           /\ \/ a[1] = 0
              \/ Outside(a[1], -30000, 30000)
              \/ Outside(a[2], 0, 4095)
              \/ Outside(a[3], 0, 18500)
        \/ /\ call.op = "move_scan_absolute"
           /\ (Outside(a[1], 0, 4095) \/ a[2] < 0)
        \/ /\ call.op = "move_scan_relative"
           /\ (Outside(a[1], -4095, 4095) \/ a[2] < 0)
        \/ /\ call.op = "move_gripper_force_absolute"
           /\ \/ Outside(a[1], -10000000, 10000000)
              \/ Outside(a[2], 1, 225000)
              \/ Outside(a[3], 0, 60000)
        \/ /\ call.op = "move_gripper_opening_absolute"
           /\ (Outside(a[1], 0, 22500) \/ Outside(a[2], 1, 225000))
        \/ /\ call.op = "move_gripper_opening_relative"
           /\ (Outside(a[1], -22500, 22500) \/ Outside(a[2], 1, 225000))
        \/ call.op = "closed_loop_vel" /\ Outside(a[1], 0, 1000000000)
        \/ call.op = "closed_loop_acc" /\ Outside(a[1], 0, 100000000)
        \/ call.op = "set_closed_loop_max_freq" /\ Outside(a[1], 0, 18500)
        \/ call.op \in {"get_table_entry", "set_table_entry"} /\ Outside(a[2], 0, 7)
        \/ call.op = "trigger_command" /\ Outside(a[1], 0, 255)
        \/ call.op = "configure_baudrate" /\ Outside(a[1], 9600, 115200)

\* C6: a call of a range-checking operation in which any checked argument is
\* out of range ends with a validation error and has written no frame.
C6_RejectedBeforeSending ==
    CheckedArgOutOfRange => (result.exc = "ValueError" /\ sent = <<>>)

StepOK(s) == (1 <= s /\ s <= 30000) \/ (-30000 <= s /\ s <= -1)

\* C7: is_steps_in_range(s) succeeds for every single integer s with
\* 1 <= |s| <= 30000, and move_step(s, amplitude, frequency) with valid
\* amplitude and frequency then sends MST; for s = 0 and |s| > 30000 it fails
\* with a validation error naming the step range.
C7_StepsValidator ==
    /\ (call.op = "is_steps_in_range" /\ ~call.args[1].list)
       => IF StepOK(call.args[1].v[1])
          THEN result.exc = "none"
          ELSE /\ result.exc = "ValueError"
               /\ result.msg = "Valid step range is [-30000, 30000]"
    /\ call.op = "move_step"
       => IF StepOK(call.args[1])
          THEN (~Outside(call.args[2], 0, 4095) /\ ~Outside(call.args[3], 0, 18500))
               => sent = <<Frame(<<"M", "S", "T">>, call.axis, call.args)>>
          ELSE /\ result.exc = "ValueError"
               /\ result.msg = "Valid step range is [-30000, 30000]"
               /\ sent = <<>>

AccOK(a) == 0 <= a /\ a <= 100000000

\* C8: the acceleration validator succeeds for every a with
\* 0 <= a <= 100000000 and fails with a validation error for -1 and for
\* 100000001; a list fails if and only if at least one element is outside
\* the interval.
C8_AccelerationValidator ==
    call.op = "is_acceleration_in_range"
    => LET v == call.args[1].v
       IN  /\ (\A i \in 1..Len(v) : AccOK(v[i])) => result.exc = "none"
           /\ (\E i \in 1..Len(v) : ~AccOK(v[i])) => result.exc = "ValueError"
           /\ sent = <<>>

\* C8 witness: a list whose first element is the upper bound and whose
\* second element is just above it was rejected
C8_Witness ==
    /\ call.op = "is_acceleration_in_range"
    /\ call.args[1].list
    /\ call.args[1].v = <<100000000, 100000001>>
    /\ result.exc = "ValueError"

EndEffectorOps ==
    {"force", "gripper_opening", "move_gripper_force_absolute",
     "move_gripper_opening_absolute", "move_gripper_opening_relative"}

\* C9: an End-Effector-only operation called on an axis that enumeration
\* classified as a Positioner (Linear or Angular) fails with a capability
\* error and writes no frame.
C9_EndEffectorOnly ==
    (call.op \in EndEffectorOps /\ axes[call.axis + 1].cls \in {"Linear", "Angular"})
    => (result.exc = "CapabilityError" /\ sent = <<>>)

\* C10: configure_baudrate on a controller whose transport is the socket
\* fails with a capability error and sends no BR frame; the BR frame is sent
\* only over a serial transport with the rate within [9600, 115200].
C10_BaudrateSerialOnly ==
    call.op = "configure_baudrate"
    => /\ comm_type = 3 => (result.exc = "CapabilityError" /\ sent = <<>>)
       /\ sent # <<>>
          => /\ comm_type \in {1, 2}
             /\ ~Outside(call.args[1], 9600, 115200)
             /\ sent = <<<<":", "B", "R">> \o IntToStr(call.args[1]) \o <<"\n">>>>

\* C11: after the construction of a SmaractMCSController, and after every
\* later successful _create_axes, when the device reports N channels whose
\* sensor codes are all in LINEAR_SENSORS or ROTARY_SENSORS, the list holds
\* exactly N axes, the axis at index i has channel number i, it is Linear iff
\* the code of channel i is in LINEAR_SENSORS and Angular iff it is in
\* ROTARY_SENSORS, and no axis of an earlier enumeration remains.
C11_EnumerationResult ==
    (/\ build.pc = "ready"
     /\ build.done
     /\ \A i \in 1..Len(build.codes) :
            build.codes[i] \in LINEAR_SENSORS \cup ROTARY_SENSORS)
    => /\ Len(axes) = Len(build.codes)
       /\ \A i \in 1..Len(axes) :
            /\ axes[i].axis_nr = i - 1
            /\ axes[i].cls = "Linear" <=> build.codes[i] \in LINEAR_SENSORS
            /\ axes[i].cls = "Angular" <=> build.codes[i] \in ROTARY_SENSORS
            /\ axes[i].gen = build.gen

\* C11 witness: a second enumeration over a list that held axes has ended
\* with the codes 1 and 2: Linear at index 0, Angular at index 1
C11_Witness ==
    /\ build.pc = "ready"
    /\ build.done
    /\ build.gen = 2
    /\ build.oldlen > 0
    /\ build.codes = <<1, 2>>
    /\ axes = <<Axis("Linear", 0, 2), Axis("Angular", 1, 2)>>

\* C12: when _create_axes, called on a built controller, meets at channel k a
\* sensor code that is in neither list, the enumeration ends with an error and
\* the axes it created for the channels 0..k-1 are not left in the list.
C12_NoPartialList ==
    (/\ call.op = "_create_axes"
     /\ build.pc = "ready"
     /\ ~build.done
     /\ build.k < Len(build.codes)
     /\ build.codes[build.k + 1] \notin LINEAR_SENSORS \cup ROTARY_SENSORS
     /\ Len(sent) >= 2
     /\ sent[Len(sent)] = <<":", "G", "S", "T">> \o IntToStr(build.k) \o <<"\n">>)
    => /\ result.exc # "none"
       /\ \A i \in 1..Len(axes) : axes[i].gen # build.gen

IsPrefix(p, t) == Len(p) <= Len(t) /\ SubSeq(t, 1, Len(p)) = p

\* C13: the first frame a SmaractMCSController writes is SCM0; no GNC or GST
\* query is sent before it; the enumeration starts only after its answer was
\* accepted without error; no operation sends an SCM frame with another mode.
C13_SynchronousFirst ==
    /\ first_frame # <<>> => first_frame = <<":", "S", "C", "M", "0", "\n">>
    /\ \A i \in 1..Len(sent) :
          /\ IsPrefix(<<":", "S", "C", "M">>, sent[i])
             => (sent[i] = <<":", "S", "C", "M", "0", "\n">> /\ call.op = "__init__" /\ i = 1)
          /\ (call.op = "__init__"
                /\ (IsPrefix(<<":", "G", "N", "C">>, sent[i])
                      \/ IsPrefix(<<":", "G", "S", "T">>, sent[i])))
             => /\ i > 1
                /\ sent[1] = <<":", "S", "C", "M", "0", "\n">>
                /\ ~(Flagged(Strip(build.scm)) /\ NonZeroCode(Strip(build.scm)))
                /\ Len(Strip(build.scm)) >= 2

\* C13 witness: a construction has gone through: SCM0, GNC, GST0, GST1
C13_Witness ==
    /\ call.op = "__init__"
    /\ build.pc = "ready"
    /\ build.done
    /\ sent = << <<":", "S", "C", "M", "0", "\n">>, <<":", "G", "N", "C", "\n">>,
                 <<":", "G", "S", "T", "0", "\n">>, <<":", "G", "S", "T", "1", "\n">> >>

\* C15: while _create_axes rebuilds the list, a concurrent caller never
\* observes a list that is emptied or only partly refilled, and never sends
\* an axis command in that window.
C15_NoHalfRebuiltObservation ==
    observed.len # -1 => ~observed.rebuilding

\* C17: a communication failure, a protocol error and an enumeration error
\* reach the caller as distinct error kinds, and each carries its context.
C17_DistinctErrorKinds ==
    \A a \in errors : \A b \in errors :
        (a.origin \in {"communication", "protocol", "enumeration"}
            /\ b.origin \in {"communication", "protocol", "enumeration"})
        => /\ a.origin # b.origin => a.exc # b.exc
           /\ a.msg # ""

\* the raw answer is a complete line of the device that answers channel ch
AnswersChannel(raw, ch) == raw \in AnswersTo(ch)

\* C14: two threads that issue commands on the same controller concurrently
\* are serialised: the flush, write and read of one command are never
\* interleaved with those of another, and each caller receives the answer to
\* the command it sent.
C14_CommandsSerialised ==
    /\ ~(Inside(1) /\ Inside(2))
    /\ \A t \in Threads :
          (th[t].pc = "done" /\ ~th[t].failed /\ th[t].raw \in AnswersTo(0) \cup AnswersTo(1))
          => AnswersChannel(th[t].raw, t - 1)

\* C16: in all three transports every I/O failure, during construction or
\* during a send, reaches the caller as the uniform communication failure
\* (RuntimeError) whose message includes the original cause.
C16_UniformCommunicationFailure ==
    /\ conn.state = "failed"
       => /\ conn.exc = "RuntimeError"
          /\ conn.cause # ""
          /\ conn.msg \in {CommFailureMsg(conn.cause), ConnectFailureMsg(conn.cause)}
    /\ \A t \in Threads :
          th[t].failed
          => /\ th[t].exc = "RuntimeError"
             /\ th[t].cause # ""
             /\ th[t].msg = CommFailureMsg(th[t].cause)

\* the number of times frame f was written to the device
TimesWritten(f) == Cardinality({i \in 1..Len(wire) : wire[i] = f})

\* C18: one call of send_cmd writes at most one frame and performs at most
\* one read, also when the transport fails or the device answers with an
\* error code; after the failure the call is over and the frame is not
\* written a second time.
C18_NoRetry ==
    \A t \in Threads :
        /\ th[t].writes <= 1
        /\ th[t].reads <= 1
        /\ TimesWritten(FrameOf(t)) <= 1
        /\ th[t].exc # "none" => th[t].pc = "done"

\* C18 witness: the frame of thread 1 was written once, the read timed out,
\* and the call has ended with the error
C18_Witness ==
    /\ th[1].pc = "done"
    /\ th[1].failed
    /\ th[1].cause = "timed out"
    /\ th[1].writes = 1
    /\ TimesWritten(FrameOf(1)) = 1

\* C19: every send of the socket transport that returns, returns exactly one
\* complete answer line: never a fragment, never more than one line.
C19_OneWholeLine ==
    \A t \in Threads :
        (comm_type = 3 /\ th[t].pc = "done" /\ ~th[t].failed)
        => /\ Len(th[t].raw) >= 1
           /\ Newlines(th[t].raw) = {Len(th[t].raw)}

\* the character c does not occur in the text t
NotIn(c, t) == \A i \in 1..Len(t) : t[i] # c

\* C20: the frame written for a command text built from a mnemonic, an
\* optional channel index and integer parameters is ':' + command + '\n' with
\* the parameters comma-joined and no spaces; the answer handed back is the
\* raw answer without its first and its last character; so when the transport
\* echoes the frame, send_cmd returns the original command text unchanged.
C20_Framing ==
    /\ call.op = "_send_cmd"
       => /\ sent = <<Frame(call.args.str_cmd, call.axis, call.args.pars)>>
          /\ NotIn(" ", sent[1])
          /\ Cardinality(CommaAt(sent[1])) = Len(call.args.pars)
          /\ result.exc = "none"
             => result.ret = SubSeq(call.answer, 2, Len(call.answer) - 1)
          /\ call.answer = sent[1]
             => /\ result.exc = "none"
                /\ <<":">> \o result.ret \o <<"\n">> = sent[1]
    /\ call.op = "send_cmd"
       => /\ sent = << <<":">> \o call.args \o <<"\n">> >>
          /\ result.exc = "none"
             => result.ret = SubSeq(call.answer, 2, Len(call.answer) - 1)
          /\ call.answer = sent[1] => (result.exc = "none" /\ result.ret = call.args)

\* C20 witness: the frame of "GP3" was echoed and send_cmd returned "GP3"
C20_Witness ==
    /\ call.op = "send_cmd"
    /\ call.args = <<"G", "P", "3">>
    /\ sent = << <<":", "G", "P", "3", "\n">> >>
    /\ call.answer = <<":", "G", "P", "3", "\n">>
    /\ result.exc = "none"
    /\ result.ret = <<"G", "P", "3">>

\* C21: with the sensors enabled or not, closed_loop_vel and closed_loop_acc
\* written with an in-range value v and then read give v: the setter ends
\* without an exception, has written one SCLS (SCLA) frame with v for the
\* channel and the device holds v; the getter writes one GCLS (GCLA) frame
\* and returns the value the device holds
C21_ClosedLoopReadBack ==
    /\ (call.op = "set_closed_loop_vel" /\ 0 <= call.args /\ call.args <= MAX_VELOCITY) =>
          /\ result.exc = "none"
          /\ sent = <<Frame(<<"S", "C", "L", "S">>, call.axis, <<call.args>>)>>
          /\ device.vel[call.axis] = call.args
    /\ (call.op = "set_closed_loop_acc" /\ 0 <= call.args
            /\ call.args <= MAX_ACCELERATION) =>
          /\ result.exc = "none"
          /\ sent = <<Frame(<<"S", "C", "L", "A">>, call.axis, <<call.args>>)>>
          /\ device.acc[call.axis] = call.args
    /\ call.op = "closed_loop_vel" =>
          /\ result.exc = "none"
          /\ sent = <<Frame(<<"G", "C", "L", "S">>, call.axis, <<>>)>>
          /\ result.ret = IntToStr(device.vel[call.axis])
    /\ call.op = "closed_loop_acc" =>
          /\ result.exc = "none"
          /\ sent = <<Frame(<<"G", "C", "L", "A">>, call.axis, <<>>)>>
          /\ result.ret = IntToStr(device.acc[call.axis])

\* the speed read back is the largest one, written before, the acceleration
\* of the channel being another value and the sensors enabled
C21_Witness ==
    /\ call.op = "closed_loop_vel"
    /\ device.sensors = 1
    /\ result.ret = IntToStr(MAX_VELOCITY)
    /\ device.acc[call.axis] = 0

\* C22: stop() and the adapter's AbortOne write exactly one S<channel> frame,
\* whatever the state of the channel, and no other frame before it
C22_StopUnconditional ==
    /\ call.op = "stop" => sent = <<Frame(<<"S">>, call.axis, <<>>)>>
    /\ call.op = "AbortOne" => sent = <<Frame(<<"S">>, MotorOf(_axes, call.axis), <<>>)>>

\* stop() has returned on a channel that is locked
C22_Witness ==
    /\ call.op = "stop"
    /\ result.exc = "none"
    /\ device.state[call.axis] = LOCKED

\* C23: find_reference_mark writes exactly one frame, FRM with (direction,
\* hold_time, auto_zero) for the channel, and returns None on its answer: no
\* GPPK and no status query is written, the search is not waited for
C23_FindReferenceMarkOneFrame ==
    call.op = "find_reference_mark" =>
        /\ sent = <<Frame(<<"F", "R", "M">>, call.axis, call.args)>>
        /\ result.exc = "none"
        /\ result.ret = <<>>

\* find_reference_mark has returned while the channel is still searching and
\* its physical position is not known
C23_Witness ==
    /\ call.op = "find_reference_mark"
    /\ result.exc = "none"
    /\ device.state[call.axis] = HOMING
    /\ device.known[call.axis] = 0

\* position // TURN and position % TURN of a list of positions
RECURSIVE FloorAngleRevs(_)
FloorAngleRevs(limits) ==
    IF Len(limits) = 0 THEN <<>>
    ELSE <<Head(limits) % TURN, Head(limits) \div TURN>> \o FloorAngleRevs(Tail(limits))

\* what the position_limits getter returns on the device as it stands
LimitsReadBack(ch) ==
    position_limits(ch, DeviceStep(device, Frame(<<"G", "A", "L">>, ch, <<>>)).raw).ret

\* C24: the Angular position_limits setter writes SAL with the angle and the
\* revolution of each limit by floor division, and the getter on the answer
\* holding those four values returns (lo, hi), negative limits included
C24_PositionLimitsRoundTrip ==
    (call.op = "set_position_limits" /\ result.exc = "none") =>
        /\ sent = <<Frame(<<"S", "A", "L">>, call.axis, FloorAngleRevs(call.args.v))>>
        /\ LimitsReadBack(call.axis) = call.args.v

\* C25: find_reference_mark with a hold_time outside [0, 60000] ends in the
\* validator's ValueError and writes no frame
C25_HoldTimeChecked ==
    (call.op = "find_reference_mark"
        /\ (call.args[2] < MIN_HOLD_TIME \/ call.args[2] > MAX_HOLD_TIME)) =>
        /\ result.exc = "ValueError"
        /\ sent = <<>>

\* C26: the max_closed_loop_frequency setter writes only the MF table: with
\* [row, value] one STE frame for that row of table MF, with eight values the
\* rows 0..7 of table MF, and never a frame for the step-increment table
C26_FrequencyTableOnly ==
    call.op = "set_max_closed_loop_frequency" =>
        /\ \A i \in 1..Len(sent) : ParseFrame(sent[i]).pars[1] = TableIndex_MF
        /\ (call.args.list /\ Len(call.args.v) = 2 /\ result.exc = "none") =>
              sent = <<Frame(<<"S", "T", "E">>, call.axis,
                             <<TableIndex_MF, call.args.v[1], call.args.v[2]>>)>>

\* C27: SendToCtrl returns a text for every command text and raises nothing
C27_SendToCtrlReturns == call.op = "SendToCtrl" => result.exc = "none"

\* the arguments of a command text: cmd.strip().split(' ')[1:]
ArgsOf(cmd) == Tail(Split(str_strip(cmd), " "))

\* C28: SendToCtrl('calibration <axis>') for an added axis has written the
\* CS frame of that axis's channel when it returns 'Calibration finished.'
C28_CalibrationSendsCS ==
    (/\ call.op = "SendToCtrl"
     /\ result.msg = "Calibration finished."
     /\ Len(ArgsOf(call.args)) = 1
     /\ IsIntText(ArgsOf(call.args)[1])
     /\ HasMotor(_axes, StrToInt(ArgsOf(call.args)[1]))) =>
        \E i \in 1..Len(sent) :
            sent[i] = Frame(<<"C", "S">>,
                            MotorOf(_axes, StrToInt(ArgsOf(call.args)[1])), <<>>)

\* C29: Controller.send_cmd returns the payload or raises the protocol error
\* (RuntimeError), whatever the transport hands back; it never ends in an
\* index or parse error
C29_SendCmdTotal == call.op = "send_cmd" => result.exc \in {"none", "RuntimeError"}

\* C30: a send_cmd begun after another call timed out never takes the late
\* answer to that call's command for its own
C30_PairingAfterTimeout ==
    \A t \in Threads :
        (th[t].pc = "done" /\ th[t].after_timeout /\ ~th[t].failed) =>
            \A u \in Threads \ {t} : ~AnswersChannel(th[t].raw, u - 1)

====
